---- MODULE Spec2Model ----
(***************************************************************************)
(* The chess rule-composition engine of src/src/rules.rs: pieces, board,   *)
(* game data, the movement generators, the attack detector, the legality   *)
(* filter and move application.  Piece tags are the ASCII codes the code   *)
(* stores in its u8 board; 0 is the empty square.                          *)
(***************************************************************************)
EXTENDS Integers, FiniteSets, Sequences, TLC

\* The engine and the game session: board, game data, the queried piece, the
\* returned moves (or value), the last operation and whether it panicked; the
\* setup rules already applied, the movement rules' active flags and the
\* pending toggle mapping.  The relay: the registered games, every connection's game id,
\* position and channel, and the message process_message handled last.  The
\* plugin rule: the buffer the movement plugin returned.  History of the
\* session: the squares a move applied since setup has left or landed on.
VARIABLES pp, gd, piece, hs, op, panicked,
          setup_done, active, rules_update,
          games, conns, relayed,
          retval, touched

vars ==
    <<pp, gd, piece, hs, op, panicked, setup_done, active, rules_update,
      games, conns, relayed, retval, touched>>

(***************************************************************************)
(* Bounds of the checked inputs.                                           *)
(***************************************************************************)
\* Other pieces stand at most this many rows and columns from the subject.
MaxDist == 2
\* In the positions of the legality queries the bishop and the enemy piece
\* stand at most this many rows from the home row.
MaxRowsAway == 1
\* Orders of the candidate moves are tried up to this many candidates.
MaxTried == 2
\* Game sessions are followed while the ply is at most this.
MaxPly == 8
\* The relay is followed for this many connections, each channel being sent
\* at most MaxInbox texts.
MaxConns == 3
MaxInbox == 1
\* The scripted session is followed while the ply is at most this.
MaxScriptPly == 17
\* The plugin's return buffer holds this many (row, col, kind) triples.
MaxTriples == 4

(***************************************************************************)
(* Data model.                                                             *)
(***************************************************************************)
BoardSize == 8
Idx == 0..BoardSize
Rows == 1..BoardSize
Cols == 1..BoardSize

GD_NO_WHITE_KS_CASTLE == 1
GD_NO_BLACK_KS_CASTLE == 2
GD_NO_WHITE_QS_CASTLE == 4
GD_NO_BLACK_QS_CASTLE == 8

\* ASCII codes of the piece tags.
WK == 75
WQ == 81
WR == 82
WB == 66
WN == 78
WP == 80
BK == 107
BQ == 113
BR == 114
BB == 98
BN == 110
BP == 112

PieceNames == {WK, WQ, WR, WB, WN, WP, BK, BQ, BR, BB, BN, BP}

Piece(r, c, n) == [row |-> r, col |-> c, name |-> n]
GameData(ply, mask) == [ply |-> ply, mask |-> mask]

EmptyBoard == [r \in Idx |-> [c \in Idx |-> 0]]

\* u16 bit operations on the castle mask.
RECURSIVE BitOr(_, _)
BitOr(a, b) ==
    IF a = 0 THEN b
    ELSE IF b = 0 THEN a
    ELSE (IF a % 2 = 1 \/ b % 2 = 1 THEN 1 ELSE 0) + 2 * BitOr(a \div 2, b \div 2)

RECURSIVE BitAnd(_, _)
BitAnd(a, b) ==
    IF a = 0 \/ b = 0 THEN 0
    ELSE (IF a % 2 = 1 /\ b % 2 = 1 THEN 1 ELSE 0) + 2 * BitAnd(a \div 2, b \div 2)

is_piece_white(n) == n >= 65 /\ n <= 90

is_white(p) == is_piece_white(p.name)

to_ascii_uppercase(n) == IF n >= 97 /\ n <= 122 THEN n - 32 ELSE n

to_ascii_lowercase(n) == IF n >= 65 /\ n <= 90 THEN n + 32 ELSE n

Move_normal(r, c, name, game_data) ==
    [dst |-> Piece(r, c, name), typ |-> [kind |-> "Normal"], game_data |-> game_data]

Move_capture(r, c, name, game_data) ==
    [dst |-> Piece(r, c, name),
     typ |-> [kind |-> "Capture", row |-> r, col |-> c],
     game_data |-> game_data]

AXES == {<<0, 1>>, <<1, 0>>, <<0, -1>>, <<-1, 0>>}
DIAGONALS == {<<-1, -1>>, <<-1, 1>>, <<1, -1>>, <<1, 1>>}
KNIGHT_JUMPS ==
    {<<1, 2>>, <<2, 1>>, <<2, -1>>, <<1, -2>>, <<-1, -2>>, <<-2, -1>>, <<-2, 1>>, <<-1, 2>>}

std_in_bounds(r, c) == 1 <= r /\ r <= 8 /\ 1 <= c /\ c <= 8

(***************************************************************************)
(* Movement generators.  Each returns the moves the code inserts into the  *)
(* accumulating HashSet.                                                   *)
(***************************************************************************)
\* Mutant of linear_walk: the walk goes on behind a captured piece.
RECURSIVE linear_walk_no_break(_, _, _, _, _, _)
linear_walk_no_break(p, board, d, i, max, game_data) ==
    IF i > max THEN {}
    ELSE LET nr == p.row + d[2] * i
             nc == p.col + d[1] * i
         IN  IF ~std_in_bounds(nr, nc) THEN {}
             ELSE IF board[nr][nc] # 0
                  THEN IF is_piece_white(board[nr][nc]) # is_white(p)
                       THEN {Move_capture(nr, nc, p.name, game_data)}
                            \cup linear_walk_no_break(p, board, d, i + 1, max, game_data)
                       ELSE {}
                  ELSE {Move_normal(nr, nc, p.name, game_data)}
                       \cup linear_walk_no_break(p, board, d, i + 1, max, game_data)

\* One direction of add_linear_moves: the inner loop from step i on.
RECURSIVE linear_walk(_, _, _, _, _, _)
linear_walk(p, board, d, i, max, game_data) ==
    IF i > max THEN {}
    ELSE LET nr == p.row + d[2] * i
             nc == p.col + d[1] * i
         IN  IF ~std_in_bounds(nr, nc) THEN {}
             ELSE IF board[nr][nc] # 0
                  THEN IF is_piece_white(board[nr][nc]) # is_white(p)
                       THEN {Move_capture(nr, nc, p.name, game_data)}
                       ELSE {}
                  ELSE {Move_normal(nr, nc, p.name, game_data)}
                       \cup linear_walk(p, board, d, i + 1, max, game_data)

add_linear_moves(p, board, dirs, max, game_data) ==
    UNION {linear_walk(p, board, d, 1, max, game_data) : d \in dirs}

\* Mutant of add_knight_moves: an occupied square is captured whatever its colour.
add_knight_moves_any_colour(p, board, game_data) ==
    UNION {LET nr == p.row + d[2]
               nc == p.col + d[1]
           IN  IF ~std_in_bounds(nr, nc) THEN {}
               ELSE IF board[nr][nc] # 0
                    THEN {Move_capture(nr, nc, p.name, game_data)}
                    ELSE {Move_normal(nr, nc, p.name, game_data)}
           : d \in KNIGHT_JUMPS}

add_knight_moves(p, board, game_data) ==
    UNION {LET nr == p.row + d[2]
               nc == p.col + d[1]
           IN  IF ~std_in_bounds(nr, nc) THEN {}
               ELSE IF board[nr][nc] # 0
                    THEN IF is_piece_white(board[nr][nc]) # is_white(p)
                         THEN {Move_capture(nr, nc, p.name, game_data)}
                         ELSE {}
                    ELSE {Move_normal(nr, nc, p.name, game_data)}
           : d \in KNIGHT_JUMPS}

pawn_dir(p) == IF is_white(p) THEN 1 ELSE -1

\* add_pawn_captures indexes the board at row p.row + dir without a bounds
\* test on the row: the access is out of range (a panic) for row 9.
add_pawn_captures_panics(p) ==
    \E i \in {-1, 1} :
        /\ 1 <= p.col + i /\ p.col + i <= 8
        /\ p.row + pawn_dir(p) \notin Idx

\* Mutant of add_pawn_captures: the colour of the occupant is not compared.
add_pawn_captures_any_colour(p, board, game_data) ==
    LET r == p.row + pawn_dir(p)
    IN  UNION {LET c == p.col + i
               IN  IF /\ 1 <= c /\ c <= 8
                      /\ r \in Idx
                      /\ board[r][c] # 0
                   THEN {Move_capture(r, c, p.name, game_data)}
                   ELSE {}
               : i \in {-1, 1}}

add_pawn_captures(p, board, game_data) ==
    LET r == p.row + pawn_dir(p)
    IN  UNION {LET c == p.col + i
               IN  IF /\ 1 <= c /\ c <= 8
                      /\ r \in Idx
                      /\ board[r][c] # 0
                      /\ is_piece_white(board[r][c]) # is_white(p)
                   THEN {Move_capture(r, c, p.name, game_data)}
                   ELSE {}
               : i \in {-1, 1}}

\* Mutant of pawn_movement: the double step is tried from every rank.
pawn_movement_always_two(p, board, game_data) ==
    LET dir == pawn_dir(p)
    IN  UNION {LET r == p.row + dir * i
               IN  IF r >= 0 /\ r <= 8 /\ board[r][p.col] = 0
                   THEN {Move_normal(r, p.col, p.name, game_data)}
                   ELSE {}
               : i \in 1..2}

pawn_movement(p, board, game_data) ==
    LET dir == pawn_dir(p)
        max == IF (dir = 1 /\ p.row = 2) \/ (dir = -1 /\ p.row = 7) THEN 2 ELSE 1
    IN  UNION {LET r == p.row + dir * i
               IN  \* a negative row wraps to a huge usize and fails r <= 8
                   IF r >= 0 /\ r <= 8 /\ board[r][p.col] = 0
                   THEN {Move_normal(r, p.col, p.name, game_data)}
                   ELSE {}
               : i \in 1..max}

(***************************************************************************)
(* Attack detector.                                                        *)
(***************************************************************************)
ALL_CASTLES_LOST ==
    BitOr(BitOr(GD_NO_BLACK_KS_CASTLE, GD_NO_BLACK_QS_CASTLE),
          BitOr(GD_NO_WHITE_KS_CASTLE, GD_NO_WHITE_QS_CASTLE))

\* Does some Capture move of `moves` land on a piece whose upper-cased tag
\* is one of `pieces`?
captures_one_of(moves, board, pieces) ==
    \E m \in moves :
        /\ m.typ.kind = "Capture"
        /\ to_ascii_uppercase(board[m.typ.row][m.typ.col]) \in pieces

\* piece_attacked panics when its pawn pattern indexes the board out of
\* range and none of the patterns run before it (rook, bishop, knight) has
\* already returned true.
piece_attacked_panics(p, board) ==
    LET g == GameData(0, ALL_CASTLES_LOST)
        white == is_white(p)
        as(n) == [p EXCEPT !.name = n]
    IN  /\ add_pawn_captures_panics(as(IF white THEN WP ELSE BP))
        /\ ~captures_one_of(add_linear_moves(as(IF white THEN WR ELSE BR), board, AXES, 8, g),
                            board, {WR, WQ})
        /\ ~captures_one_of(add_linear_moves(as(IF white THEN WB ELSE BB), board, DIAGONALS, 8, g),
                            board, {WB, WQ})
        /\ ~captures_one_of(add_knight_moves(as(IF white THEN WN ELSE BN), board, g),
                            board, {WN})

\* Mutant of piece_attacked: any captured piece counts, whatever its type.
piece_attacked_any_type(p, board, game_data) ==
    LET g == [game_data EXCEPT !.mask = ALL_CASTLES_LOST]
        white == is_white(p)
        as(n) == [p EXCEPT !.name = n]
        all == {WK, WQ, WR, WB, WN, WP}
    IN  \/ captures_one_of(add_linear_moves(as(IF white THEN WR ELSE BR), board, AXES, 8, g),
                           board, all)
        \/ captures_one_of(add_linear_moves(as(IF white THEN WB ELSE BB), board, DIAGONALS, 8, g),
                           board, all)
        \/ captures_one_of(add_knight_moves(as(IF white THEN WN ELSE BN), board, g), board, all)
        \/ captures_one_of(add_pawn_captures(as(IF white THEN WP ELSE BP), board, g), board, all)
        \/ captures_one_of(add_linear_moves(as(IF white THEN WK ELSE BK), board, AXES, 1, g)
                           \cup add_linear_moves(as(IF white THEN WK ELSE BK), board, DIAGONALS, 1, g),
                           board, all)
piece_attacked(p, board, game_data) ==
    LET g == [game_data EXCEPT !.mask = ALL_CASTLES_LOST]
        white == is_white(p)
        as(n) == [p EXCEPT !.name = n]
        gen_rook_attacks ==
            add_linear_moves(as(IF white THEN WR ELSE BR), board, AXES, 8, g)
        gen_bishop_attacks ==
            add_linear_moves(as(IF white THEN WB ELSE BB), board, DIAGONALS, 8, g)
        gen_knight_attacks ==
            add_knight_moves(as(IF white THEN WN ELSE BN), board, g)
        gen_pawn_attacks ==
            add_pawn_captures(as(IF white THEN WP ELSE BP), board, g)
        gen_king_attacks ==
            add_linear_moves(as(IF white THEN WK ELSE BK), board, AXES, 1, g)
            \cup add_linear_moves(as(IF white THEN WK ELSE BK), board, DIAGONALS, 1, g)
    IN  \/ captures_one_of(gen_rook_attacks, board, {WR, WQ})
        \/ captures_one_of(gen_bishop_attacks, board, {WB, WQ})
        \/ captures_one_of(gen_knight_attacks, board, {WN})
        \/ captures_one_of(gen_pawn_attacks, board, {WP})
        \/ captures_one_of(gen_king_attacks, board, {WK})

(***************************************************************************)
(* Castling.                                                               *)
(***************************************************************************)
Min(a, b) == IF a < b THEN a ELSE b
Max(a, b) == IF a > b THEN a ELSE b

\* Mutant of castle_move: only the right of the castling side is cleared.
castle_move_one_right(p, rook_col, game_data) ==
    LET row == IF is_white(p) THEN 1 ELSE 8
        new_mask == IF is_white(p)
                    THEN IF rook_col = 1 THEN GD_NO_WHITE_QS_CASTLE
                         ELSE GD_NO_WHITE_KS_CASTLE
                    ELSE IF rook_col = 1 THEN GD_NO_BLACK_QS_CASTLE
                         ELSE GD_NO_BLACK_KS_CASTLE
        rn == IF is_white(p) THEN WR ELSE BR
        kd == IF rook_col = 1 THEN 3 ELSE 7
        rd == IF rook_col = 1 THEN 4 ELSE 6
    IN  [dst |-> Piece(row, kd, p.name),
         typ |-> [kind |-> "Secondary",
                  src |-> Piece(row, rook_col, rn),
                  dst |-> Piece(row, rd, rn)],
         game_data |-> [game_data EXCEPT !.mask = BitOr(game_data.mask, new_mask)]]

\* The Secondary move add_castle inserts once its checks have passed.
castle_move(p, rook_col, game_data) ==
    LET row == IF is_white(p) THEN 1 ELSE 8
        new_mask == IF is_white(p)
                    THEN BitOr(GD_NO_WHITE_KS_CASTLE, GD_NO_WHITE_QS_CASTLE)
                    ELSE BitOr(GD_NO_BLACK_KS_CASTLE, GD_NO_BLACK_QS_CASTLE)
        rn == IF is_white(p) THEN WR ELSE BR
        kd == IF rook_col = 1 THEN 3 ELSE 7
        rd == IF rook_col = 1 THEN 4 ELSE 6
    IN  [dst |-> Piece(row, kd, p.name),
         typ |-> [kind |-> "Secondary",
                  src |-> Piece(row, rook_col, rn),
                  dst |-> Piece(row, rd, rn)],
         game_data |-> [game_data EXCEPT !.mask = BitOr(game_data.mask, new_mask)]]

add_castle(p, board, game_data, rook_col) ==
    LET mask == IF is_white(p)
                THEN IF rook_col = 1 THEN GD_NO_WHITE_QS_CASTLE ELSE GD_NO_WHITE_KS_CASTLE
                ELSE IF rook_col = 1 THEN GD_NO_BLACK_QS_CASTLE ELSE GD_NO_BLACK_KS_CASTLE
        row == IF is_white(p) THEN 1 ELSE 8
        rn == IF is_white(p) THEN WR ELSE BR
        ks == 5
    IN  IF BitAnd(game_data.mask, mask) # 0 THEN {}
        ELSE IF board[row][ks] # p.name \/ board[row][rook_col] # rn THEN {}
        ELSE IF piece_attacked(Piece(row, ks, p.name), board, game_data) THEN {}
        ELSE IF \E col \in (Min(rook_col, ks) + 1)..(Max(rook_col, ks) - 1) :
                    \/ board[row][col] # 0
                    \/ piece_attacked(Piece(row, col, p.name), board, game_data)
             THEN {}
        ELSE {castle_move(p, rook_col, game_data)}

(***************************************************************************)
(* find_piece scans rows 0..7 and columns 0..7 in row-major order.         *)
(***************************************************************************)
NotFound == <<>>

find_piece(name, board) ==
    LET hits == {rc \in (0..7) \X (0..7) : board[rc[1]][rc[2]] = name}
    IN  IF hits = {} THEN NotFound
        ELSE CHOOSE rc \in hits :
                \A o \in hits : rc[1] < o[1] \/ (rc[1] = o[1] /\ rc[2] <= o[2])

(***************************************************************************)
(* The rule registry: turn rule, movement rules, constraint rule.          *)
(***************************************************************************)
\* "player-order"
player_order(p, game_data) == is_white(p) = (game_data.ply % 2 = 1)

\* Mutant of rook_rule: a corner rook's moves carry the corner's bit alone,
\* the bits already set are dropped.
rook_rule_forgets_mask(p, board, game_data) ==
    LET g == CASE p.row = 1 /\ p.col = 1 ->
                    [game_data EXCEPT !.mask = GD_NO_WHITE_QS_CASTLE]
               [] p.row = 1 /\ p.col = 8 ->
                    [game_data EXCEPT !.mask = GD_NO_WHITE_KS_CASTLE]
               [] p.row = 8 /\ p.col = 1 ->
                    [game_data EXCEPT !.mask = GD_NO_BLACK_QS_CASTLE]
               [] p.row = 8 /\ p.col = 8 ->
                    [game_data EXCEPT !.mask = GD_NO_BLACK_KS_CASTLE]
               [] OTHER -> game_data
    IN  add_linear_moves(p, board, AXES, 8, g)
rook_rule(p, board, game_data) ==
    LET g == CASE p.row = 1 /\ p.col = 1 ->
                    [game_data EXCEPT !.mask = BitOr(@, GD_NO_WHITE_QS_CASTLE)]
               [] p.row = 1 /\ p.col = 8 ->
                    [game_data EXCEPT !.mask = BitOr(@, GD_NO_WHITE_KS_CASTLE)]
               [] p.row = 8 /\ p.col = 1 ->
                    [game_data EXCEPT !.mask = BitOr(@, GD_NO_BLACK_QS_CASTLE)]
               [] p.row = 8 /\ p.col = 8 ->
                    [game_data EXCEPT !.mask = BitOr(@, GD_NO_BLACK_KS_CASTLE)]
               [] OTHER -> game_data
    IN  add_linear_moves(p, board, AXES, 8, g)

bishop_rule(p, board, game_data) == add_linear_moves(p, board, DIAGONALS, 8, game_data)

queen_rule(p, board, game_data) ==
    add_linear_moves(p, board, AXES, 8, game_data)
    \cup add_linear_moves(p, board, DIAGONALS, 8, game_data)

\* Mutant of king_rule: the resulting mask is the mover's two bits alone, the
\* bits already set are dropped.
king_rule_forgets_mask(p, board, game_data) ==
    LET g == IF is_white(p)
             THEN [game_data EXCEPT !.mask =
                      BitOr(GD_NO_WHITE_KS_CASTLE, GD_NO_WHITE_QS_CASTLE)]
             ELSE [game_data EXCEPT !.mask =
                      BitOr(GD_NO_BLACK_KS_CASTLE, GD_NO_BLACK_QS_CASTLE)]
    IN  add_linear_moves(p, board, AXES, 1, g)
        \cup add_linear_moves(p, board, DIAGONALS, 1, g)

\* Mutant of king_rule: only the king-side right is cleared.
king_rule_one_right(p, board, game_data) ==
    LET g == IF is_white(p)
             THEN [game_data EXCEPT !.mask = BitOr(@, GD_NO_WHITE_KS_CASTLE)]
             ELSE [game_data EXCEPT !.mask = BitOr(@, GD_NO_BLACK_KS_CASTLE)]
    IN  add_linear_moves(p, board, AXES, 1, g)
        \cup add_linear_moves(p, board, DIAGONALS, 1, g)

king_rule(p, board, game_data) ==
    LET g == IF is_white(p)
             THEN [game_data EXCEPT !.mask =
                      BitOr(BitOr(@, GD_NO_WHITE_KS_CASTLE), GD_NO_WHITE_QS_CASTLE)]
             ELSE [game_data EXCEPT !.mask =
                      BitOr(BitOr(@, GD_NO_BLACK_KS_CASTLE), GD_NO_BLACK_QS_CASTLE)]
    IN  add_linear_moves(p, board, AXES, 1, g)
        \cup add_linear_moves(p, board, DIAGONALS, 1, g)

\* The registry of the test build (the js-plugin rule is not registered).
MovementRuleNames ==
    {"pawn-movement", "pawn-capture", "knight", "bishop", "rook", "queen", "king",
     "kingside-castle", "queenside-castle"}

\* The registry of the shipped build: the js-plugin rule is registered too.
AllMovementRuleNames == MovementRuleNames \cup {"js-plugin"}

\* The keys of the setup-rule registry.
SetupRuleNames == {"pawns", "rooks", "knights", "bishops", "queens", "kings"}

\* The pending toggle mapping, an Option: None, or Some(v) for a mapping v.
None == {}
Some(v) == {v}

\* piece_constrait of each rule, as the lower-case tag.
piece_constrait(rule) ==
    CASE rule \in {"pawn-movement", "pawn-capture"} -> BP
      [] rule = "knight" -> BN
      [] rule = "bishop" -> BB
      [] rule = "rook" -> BR
      [] rule = "queen" -> BQ
      [] rule \in {"king", "kingside-castle", "queenside-castle"} -> BK

\* The rule's closure applied to (piece, board, game data).
movement_rule(rule, p, board, game_data) ==
    CASE rule = "pawn-movement" -> pawn_movement(p, board, game_data)
      [] rule = "pawn-capture" -> add_pawn_captures(p, board, game_data)
      [] rule = "knight" -> add_knight_moves(p, board, game_data)
      [] rule = "bishop" -> bishop_rule(p, board, game_data)
      [] rule = "rook" -> rook_rule(p, board, game_data)
      [] rule = "queen" -> queen_rule(p, board, game_data)
      [] rule = "king" -> king_rule(p, board, game_data)
      [] rule = "kingside-castle" -> add_castle(p, board, game_data, 8)
      [] rule = "queenside-castle" -> add_castle(p, board, game_data, 1)

movement_rule_panics(rule, p) ==
    rule = "pawn-capture" /\ add_pawn_captures_panics(p)

\* Does allowed_moves run the rule for the piece?
rule_applies(rule, p) ==
    to_ascii_lowercase(piece_constrait(rule)) = to_ascii_lowercase(p.name)

\* "resolve-check"
resolve_check(p, board, game_data) ==
    LET king == IF is_white(p) THEN WK ELSE BK
        rc == find_piece(king, board)
    IN  IF rc # NotFound
        THEN ~piece_attacked(Piece(rc[1], rc[2], king), board, game_data)
        ELSE TRUE

(***************************************************************************)
(* Move application and the legality filter.                               *)
(***************************************************************************)
put(board, r, c, n) == [board EXCEPT ![r][c] = n]

\* Mutant of make_move: the source square is not cleared.
make_move_keeps_source(p, m, board) ==
    LET r == m.dst.row
        c == m.dst.col
        b2 == put(board, r, c, p.name)
    IN  CASE m.typ.kind = "Capture" ->
                IF <<m.typ.row, m.typ.col>> # <<r, c>>
                THEN put(b2, m.typ.row, m.typ.col, 0)
                ELSE b2
          [] m.typ.kind = "Secondary" ->
                LET b3 == IF <<m.typ.src.row, m.typ.src.col>> # <<r, c>>
                          THEN put(b2, m.typ.src.row, m.typ.src.col, 0)
                          ELSE b2
                IN  put(b3, m.typ.dst.row, m.typ.dst.col, m.typ.dst.name)
          [] m.typ.kind = "Normal" -> b2

\* Mutant of make_move: the captured square is emptied even when it is the
\* destination.
make_move_clears_destination(p, m, board) ==
    LET r == m.dst.row
        c == m.dst.col
        b1 == put(board, p.row, p.col, 0)
        b2 == put(b1, r, c, p.name)
    IN  CASE m.typ.kind = "Capture" -> put(b2, m.typ.row, m.typ.col, 0)
          [] m.typ.kind = "Secondary" ->
                LET b3 == IF <<m.typ.src.row, m.typ.src.col>> # <<r, c>>
                          THEN put(b2, m.typ.src.row, m.typ.src.col, 0)
                          ELSE b2
                IN  put(b3, m.typ.dst.row, m.typ.dst.col, m.typ.dst.name)
          [] m.typ.kind = "Normal" -> b2
make_move(p, m, board) ==
    LET r == m.dst.row
        c == m.dst.col
        b1 == put(board, p.row, p.col, 0)
        b2 == put(b1, r, c, p.name)
    IN  CASE m.typ.kind = "Capture" ->
                IF <<m.typ.row, m.typ.col>> # <<r, c>>
                THEN put(b2, m.typ.row, m.typ.col, 0)
                ELSE b2
          [] m.typ.kind = "Secondary" ->
                LET b3 == IF <<m.typ.src.row, m.typ.src.col>> # <<r, c>>
                          THEN put(b2, m.typ.src.row, m.typ.src.col, 0)
                          ELSE b2
                IN  put(b3, m.typ.dst.row, m.typ.dst.col, m.typ.dst.name)
          [] m.typ.kind = "Normal" -> b2

\* The filter closure of constrain_moves for one candidate: the move is made
\* on the scratch board and every constraint rule is asked.
constraint_allows(p, m, board, game_data) ==
    resolve_check(p, make_move(p, m, board), game_data)

constrain_moves(moves, p, board, game_data) ==
    {m \in moves : constraint_allows(p, m, board, game_data)}

generated_moves(p, board, game_data) ==
    UNION {movement_rule(rule, p, board, game_data) :
              rule \in {x \in MovementRuleNames : rule_applies(x, p)}}

allowed_moves_panics(p) ==
    \E rule \in MovementRuleNames : rule_applies(rule, p) /\ movement_rule_panics(rule, p)

\* Mutant of allowed_moves: a piece the turn rule rejects gets no move.
allowed_moves_turn_checked(p, board, game_data) ==
    IF player_order(p, game_data)
    THEN constrain_moves(generated_moves(p, board, game_data), p, board, game_data)
    ELSE {}

allowed_moves(p, board, game_data) ==
    constrain_moves(generated_moves(p, board, game_data), p, board, game_data)

(***************************************************************************)
(* Checked inputs.                                                         *)
(***************************************************************************)
Squares == Rows \X Cols

place(board, q) == put(board, q.row, q.col, q.name)

\* Game data of the queries: ply 1 or 2; no right lost, or one right of each
\* colour lost (black king-side and white queen-side).
MaskMenu == {0, BitOr(GD_NO_BLACK_KS_CASTLE, GD_NO_WHITE_QS_CASTLE)}
OtherNames == {WR, BR}

near(q, r, c) ==
    /\ q[1] - r <= MaxDist /\ r - q[1] <= MaxDist
    /\ q[2] - c <= MaxDist /\ c - q[2] <= MaxDist
    /\ q # <<r, c>>

TypeOK ==
    /\ pp \in [Idx -> [Idx -> {0} \cup PieceNames]]
    /\ gd.ply \in Nat /\ gd.mask \in 0..15
    /\ piece.name \in {0} \cup PieceNames /\ piece.row \in Idx /\ piece.col \in Idx
    /\ panicked \in BOOLEAN
    /\ setup_done \subseteq SetupRuleNames
    /\ active \in [AllMovementRuleNames -> BOOLEAN]
    /\ \A g \in DOMAIN games : games[g] \subseteq DOMAIN conns

\* No game session is running: every setup rule is applied, every movement
\* rule is active and no toggle mapping is pending.
SessionAtRest ==
    /\ setup_done = SetupRuleNames
    /\ active = [n \in AllMovementRuleNames |-> TRUE]
    /\ rules_update = None

\* No move has been applied since setup.
NothingTouched == touched = {}

\* No plugin has been called: the return buffer is not allocated.
PluginAtRest == retval = <<>>

\* The relay has no game and no connection.
RelayAtRest ==
    /\ games = <<>>
    /\ conns = <<>>
    /\ relayed = <<>>

(***************************************************************************)
(* SpecRules: one movement rule applied to a piece standing on a board     *)
(* with at most one other piece near it.                                   *)
(***************************************************************************)
InitRules ==
    /\ \E n \in PieceNames, r \in Rows, c \in Cols :
          /\ piece = Piece(r, c, n)
          /\ \/ pp = place(EmptyBoard, Piece(r, c, n))
             \/ \E q \in Squares, o \in OtherNames :
                   /\ near(q, r, c)
                   /\ pp = place(place(EmptyBoard, Piece(r, c, n)), Piece(q[1], q[2], o))
    /\ \E m \in MaskMenu : gd = GameData(1, m)
    /\ hs = {}
    /\ op = "input"
    /\ panicked = FALSE
    /\ SessionAtRest
    /\ RelayAtRest
    /\ PluginAtRest
    /\ NothingTouched

\* The loop body of allowed_moves for one registered rule.
RunRule(rule) ==
    /\ op = "input"
    /\ rule_applies(rule, piece)
    /\ op' = rule
    /\ panicked' = movement_rule_panics(rule, piece)
    /\ hs' = IF movement_rule_panics(rule, piece) THEN {}
             ELSE movement_rule(rule, piece, pp, gd)
    /\ UNCHANGED <<pp, gd, piece>>
    /\ UNCHANGED <<setup_done, active, rules_update, games, conns, relayed, retval, touched>>

PawnMovement == RunRule("pawn-movement")
PawnCapture == RunRule("pawn-capture")
Knight == RunRule("knight")
Bishop == RunRule("bishop")
Rook == RunRule("rook")
Queen == RunRule("queen")
King == RunRule("king")

NextRules ==
    \/ PawnMovement
    \/ PawnCapture
    \/ Knight
    \/ Bishop
    \/ Rook
    \/ Queen
    \/ King

SpecRules == InitRules /\ [][NextRules]_vars

(***************************************************************************)
(* Claims about the movement generators (SpecRules).                       *)
(***************************************************************************)
\* <<row, col, kind>> of every move of a set.
Dests(moves) == {<<m.dst.row, m.dst.col, m.typ.kind>> : m \in moves}

\* Every move carries the mover's tag, and a Capture names its own destination.
WellFormed(moves, p) ==
    \A m \in moves :
        /\ m.dst.name = p.name
        /\ m.typ.kind = "Capture" => (m.typ.row = m.dst.row /\ m.typ.col = m.dst.col)

HasBit(mask, bit) == (mask \div bit) % 2 = 1

\* The squares strictly between (r, c) and its i-th square along d are empty.
ClearTo(board, r, c, d, i) ==
    \A j \in 1..(i - 1) : board[r + d[2] * j][c + d[1] * j] = 0

\* The moves a ray piece has along the directions dirs, up to `reach` squares.
RayDests(board, p, dirs, reach) ==
    {<<p.row + d[2] * i, p.col + d[1] * i,
       IF board[p.row + d[2] * i][p.col + d[1] * i] = 0 THEN "Normal" ELSE "Capture">> :
        <<d, i>> \in {di \in dirs \X (1..reach) :
            LET r == p.row + di[1][2] * di[2]
                c == p.col + di[1][1] * di[2]
            IN  /\ r \in Rows /\ c \in Cols
                /\ ClearTo(board, p.row, p.col, di[1], di[2])
                /\ \/ board[r][c] = 0
                   \/ is_piece_white(board[r][c]) # is_white(p)}}

SlidingDirs(rule) ==
    CASE rule = "rook" -> AXES
      [] rule = "bishop" -> DIAGONALS
      [] rule = "queen" -> AXES \cup DIAGONALS

\* C4: the pseudo-legal moves of a rook, bishop or queen are exactly, along
\* each direction of its direction set, a Normal move to every empty square
\* before the first occupied square or the edge, plus a Capture on the first
\* occupied square iff its occupant is of the opposite colour.
C4_SlidingMovesExact ==
    op \in {"rook", "bishop", "queen"} =>
        /\ Dests(hs) = RayDests(pp, piece, SlidingDirs(op), 8)
        /\ WellFormed(hs, piece)
        /\ Cardinality(hs) = Cardinality(Dests(hs))

C4_Witness ==
    /\ op \in {"rook", "bishop", "queen"}
    /\ \E m \in hs : m.typ.kind = "Capture"
    /\ \E m \in hs : m.typ.kind = "Normal"
    /\ \E d \in SlidingDirs(op) :
          /\ std_in_bounds(piece.row + 2 * d[2], piece.col + 2 * d[1])
          /\ pp[piece.row + d[2]][piece.col + d[1]] # 0
          /\ <<piece.row + 2 * d[2], piece.col + 2 * d[1], "Normal">> \notin Dests(hs)

JumpTable ==
    {d \in (-2..2) \X (-2..2) :
        d[1] # 0 /\ d[2] # 0 /\ d[1] # d[2] /\ d[1] # -d[2]}

\* C5: the knight's destinations are exactly the squares of the 8-offset jump
\* table that are on the board and not occupied by a same-colour piece; a
\* destination is a Capture iff occupied by the opposite colour, Normal iff empty.
C5_KnightMovesExact ==
    op = "knight" =>
        /\ Cardinality(JumpTable) = 8
        /\ Dests(hs) =
              {<<piece.row + d[2], piece.col + d[1],
                 IF pp[piece.row + d[2]][piece.col + d[1]] = 0 THEN "Normal" ELSE "Capture">> :
                  d \in {j \in JumpTable :
                      /\ piece.row + j[2] \in Rows /\ piece.col + j[1] \in Cols
                      /\ LET o == pp[piece.row + j[2]][piece.col + j[1]]
                         IN  o = 0 \/ is_piece_white(o) # is_white(piece)}}
        /\ WellFormed(hs, piece)
        /\ Cardinality(hs) = Cardinality(Dests(hs))

C5_Witness ==
    /\ op = "knight"
    /\ \E m \in hs : m.typ.kind = "Capture"
    /\ Cardinality(hs) < 8

OnHomeRank(p) == (is_white(p) /\ p.row = 2) \/ (~is_white(p) /\ p.row = 7)

\* The row i squares ahead of the pawn.
Ahead(p, i) == p.row + pawn_dir(p) * i

\* C6: a pawn on its home rank whose next two squares ahead are empty has
\* exactly two forward destinations (one and two rows ahead); a pawn not on
\* its home rank has at most one, the square directly ahead, and only when
\* that square is empty.
C6_PawnForward ==
    op = "pawn-movement" =>
        /\ \A m \in hs : m.typ.kind = "Normal" /\ m.dst.name = piece.name
        /\ (OnHomeRank(piece) /\ pp[Ahead(piece, 1)][piece.col] = 0
                              /\ pp[Ahead(piece, 2)][piece.col] = 0)
              => /\ Dests(hs) = {<<Ahead(piece, 1), piece.col, "Normal">>,
                                 <<Ahead(piece, 2), piece.col, "Normal">>}
                 /\ Cardinality(hs) = 2
        /\ ~OnHomeRank(piece)
              => /\ Dests(hs) \subseteq {<<Ahead(piece, 1), piece.col, "Normal">>}
                 /\ Cardinality(hs) <= 1
                 /\ hs # {} => pp[Ahead(piece, 1)][piece.col] = 0

C6_Witness ==
    /\ op = "pawn-movement"
    /\ OnHomeRank(piece)
    /\ Cardinality(hs) = 2
    /\ \E q \in Squares : q # <<piece.row, piece.col>> /\ pp[q[1]][q[2]] # 0

\* C7: a pawn whose square immediately ahead is occupied has no forward
\* destination, whatever its rank.
C7_BlockedPawnHasNoForwardMove ==
    (/\ op = "pawn-movement"
     /\ Ahead(piece, 1) \in Rows
     /\ pp[Ahead(piece, 1)][piece.col] # 0)
        => hs = {}

\* C8: a diagonal-forward square on the board is the destination of a Capture
\* iff it holds a piece of the opposite colour; the pawn-capture rule emits
\* nothing else (no move straight ahead, none onto an empty or own square).
C8_PawnCaptures ==
    op = "pawn-capture" =>
        /\ \A i \in {-1, 1} :
              std_in_bounds(Ahead(piece, 1), piece.col + i) =>
                 LET o == pp[Ahead(piece, 1)][piece.col + i]
                 IN  (<<Ahead(piece, 1), piece.col + i, "Capture">> \in Dests(hs))
                        <=> (o # 0 /\ is_piece_white(o) # is_white(piece))
        /\ \A m \in hs :
              /\ m.typ.kind = "Capture"
              /\ m.dst.row = Ahead(piece, 1)
              /\ m.dst.col \in {piece.col - 1, piece.col + 1}
              /\ std_in_bounds(m.dst.row, m.dst.col)
        /\ WellFormed(hs, piece)

C8_Witness ==
    /\ op = "pawn-capture"
    /\ Cardinality(hs) = 1
    /\ \E i \in {-1, 1} :
          /\ std_in_bounds(Ahead(piece, 1), piece.col + i)
          /\ pp[Ahead(piece, 1)][piece.col + i] = 0

OwnRights(p) ==
    IF is_white(p) THEN {GD_NO_WHITE_KS_CASTLE, GD_NO_WHITE_QS_CASTLE}
    ELSE {GD_NO_BLACK_KS_CASTLE, GD_NO_BLACK_QS_CASTLE}

AllRights ==
    {GD_NO_WHITE_KS_CASTLE, GD_NO_WHITE_QS_CASTLE,
     GD_NO_BLACK_KS_CASTLE, GD_NO_BLACK_QS_CASTLE}

\* C9: the king-step rule emits one move for each adjacent on-board square
\* that is empty (Normal) or holds an opposite-colour piece (Capture), none
\* for a same-colour square; every move has both castling rights of the
\* king's colour cleared and the other colour's rights as they were.
C9_KingSteps ==
    op = "king" =>
        /\ Dests(hs) = RayDests(pp, piece, AXES \cup DIAGONALS, 1)
        /\ WellFormed(hs, piece)
        /\ Cardinality(hs) = Cardinality(Dests(hs))
        /\ \A m \in hs :
              /\ m.game_data.ply = gd.ply
              /\ m.game_data.mask \in 0..15
              /\ \A b \in OwnRights(piece) : HasBit(m.game_data.mask, b)
              /\ \A b \in AllRights \ OwnRights(piece) :
                    HasBit(m.game_data.mask, b) <=> HasBit(gd.mask, b)

C9_Witness ==
    /\ op = "king"
    /\ gd.mask # 0
    /\ \E m \in hs : m.typ.kind = "Capture"
    /\ std_in_bounds(piece.row + 1, piece.col + 1)
    /\ std_in_bounds(piece.row - 1, piece.col - 1)

(***************************************************************************)
(* Positions of the allowed_moves queries: one side's king with pieces     *)
(* standing at most MaxRowsAway rows from that side's home row.            *)
(***************************************************************************)
HomeRow(white) == IF white THEN 1 ELSE 8

NearHome(white) ==
    {q \in Squares :
        /\ q[1] - HomeRow(white) <= MaxRowsAway
        /\ HomeRow(white) - q[1] <= MaxRowsAway}

CornerRooks(white) ==
    {Piece(HomeRow(white), c, IF white THEN WR ELSE BR) : c \in {1, 8}}

OwnBishops(white, squares) ==
    {Piece(q[1], q[2], IF white THEN WB ELSE BB) : q \in squares}

EnemyNames(white) ==
    IF white THEN {BR, BB, BN, BP, BQ, BK} ELSE {WR, WB, WN, WP, WQ, WK}

EnemyPieces(white) ==
    {Piece(q[1], q[2], n) : q \in NearHome(white), n \in EnemyNames(white)}

\* The empty set and the singletons of S.
AtMostOne(S) == {{}} \cup {{x} : x \in S}

RECURSIVE place_all(_, _)
place_all(board, ps) ==
    IF ps = {} THEN board
    ELSE LET q == CHOOSE x \in ps : TRUE
         IN  place_all(place(board, q), ps \ {q})

\* The board with the king on k and the pieces of extra, no two on a square.
Position(white, k, extra) ==
    /\ \A a \in extra : <<a.row, a.col>> # k
    /\ \A a, b \in extra : (a.row = b.row /\ a.col = b.col) => a = b
    /\ piece = Piece(k[1], k[2], IF white THEN WK ELSE BK)
    /\ pp = place_all(place(EmptyBoard, piece), extra)

\* Rules::allowed_moves for the piece on (r, c), a piece of the side under study.
AllowedMoves(r, c) ==
    /\ op = "input"
    /\ pp[r][c] # 0
    /\ is_piece_white(pp[r][c]) = is_white(piece)
    /\ LET q == Piece(r, c, pp[r][c])
       IN  /\ piece' = q
           /\ panicked' = allowed_moves_panics(q)
           /\ hs' = IF allowed_moves_panics(q) THEN {} ELSE allowed_moves(q, pp, gd)
    /\ op' = "allowed_moves"
    /\ UNCHANGED <<pp, gd>>
    /\ UNCHANGED <<setup_done, active, rules_update, games, conns, relayed, retval, touched>>

(***************************************************************************)
(* Spec: allowed_moves for the king and a bishop of its colour, the king   *)
(* standing inside or outside the rows and columns find_piece scans, with  *)
(* at most one enemy piece; white is out of turn at ply 2, black at ply 1. *)
(***************************************************************************)
KingSquares(white) ==
    IF white THEN {<<1, 5>>, <<1, 8>>} ELSE {<<8, 5>>, <<7, 5>>}

Init ==
    /\ \E white \in BOOLEAN :
          \E k \in KingSquares(white) :
             \E bishop \in AtMostOne(OwnBishops(white, NearHome(white))),
                enemy \in AtMostOne(EnemyPieces(white)) :
                Position(white, k, bishop \cup enemy)
    /\ gd \in {GameData(1, 0),
               GameData(2, BitOr(GD_NO_BLACK_KS_CASTLE, GD_NO_WHITE_QS_CASTLE))}
    /\ hs = {}
    /\ op = "input"
    /\ panicked = FALSE
    /\ SessionAtRest
    /\ RelayAtRest
    /\ PluginAtRest
    /\ NothingTouched

Next == \E r \in Rows, c \in Cols : AllowedMoves(r, c)

Spec == Init /\ [][Next]_vars

(***************************************************************************)
(* SpecCastle: allowed_moves for a king on its home square or next to it,  *)
(* with any of its corner rooks, at most one bishop of its own on the home *)
(* row and at most one enemy piece; each castling right is lost in one of  *)
(* the game data and available in the others.                              *)
(***************************************************************************)
CastleKingSquares(white) == {<<HomeRow(white), 5>>, <<HomeRow(white), 4>>}

HomeRowSquares(white) == {q \in Squares : q[1] = HomeRow(white)}

InitCastle ==
    /\ \E white \in BOOLEAN :
          \E k \in CastleKingSquares(white) :
             \E rooks \in SUBSET CornerRooks(white),
                bishop \in AtMostOne(OwnBishops(white, HomeRowSquares(white))),
                enemy \in AtMostOne(EnemyPieces(white)) :
                Position(white, k, rooks \cup bishop \cup enemy)
    /\ gd \in {GameData(1, 0),
               GameData(2, BitOr(GD_NO_BLACK_KS_CASTLE, GD_NO_WHITE_QS_CASTLE)),
               GameData(1, BitOr(GD_NO_WHITE_KS_CASTLE, GD_NO_BLACK_QS_CASTLE))}
    /\ hs = {}
    /\ op = "input"
    /\ panicked = FALSE
    /\ SessionAtRest
    /\ RelayAtRest
    /\ PluginAtRest
    /\ NothingTouched

KingQuery == AllowedMoves(piece.row, piece.col)

NextCastle == KingQuery

SpecCastle == InitCastle /\ [][NextCastle]_vars

(***************************************************************************)
(* Chess geometry, stated without the generators: which squares a piece    *)
(* standing on the board attacks.                                          *)
(***************************************************************************)
Abs(x) == IF x < 0 THEN -x ELSE x
Sgn(x) == IF x < 0 THEN -1 ELSE IF x > 0 THEN 1 ELSE 0

\* The squares strictly between a and t, which share a line.
Between(a, t) ==
    {<<a[1] + Sgn(t[1] - a[1]) * j, a[2] + Sgn(t[2] - a[2]) * j>> :
        j \in 1..(Max(Abs(t[1] - a[1]), Abs(t[2] - a[2])) - 1)}

\* The piece standing on a attacks the square t.
Attacks(board, a, t) ==
    LET n == board[a[1]][a[2]]
        dr == t[1] - a[1]
        dc == t[2] - a[2]
        open == \A q \in Between(a, t) : board[q[1]][q[2]] = 0
    IN  /\ a # t
        /\ \/ n \in {WR, BR, WQ, BQ} /\ (dr = 0 \/ dc = 0) /\ open
           \/ n \in {WB, BB, WQ, BQ} /\ Abs(dr) = Abs(dc) /\ open
           \/ n \in {WN, BN} /\ {Abs(dr), Abs(dc)} = {1, 2}
           \/ n = WP /\ dr = 1 /\ Abs(dc) = 1
           \/ n = BP /\ dr = -1 /\ Abs(dc) = 1
           \/ n \in {WK, BK} /\ Abs(dr) <= 1 /\ Abs(dc) <= 1

\* Some piece of the given colour attacks the square t.
AttackedBy(board, t, white) ==
    \E a \in Squares :
        /\ board[a[1]][a[2]] # 0
        /\ is_piece_white(board[a[1]][a[2]]) = white
        /\ Attacks(board, a, t)

OwnKing(p) == IF is_white(p) THEN WK ELSE BK
OwnRook(p) == IF is_white(p) THEN WR ELSE BR

\* The mover's king is attacked on the board.
KingAttacked(board, p) ==
    \E k \in Squares :
        board[k[1]][k[2]] = OwnKing(p) /\ AttackedBy(board, k, ~is_white(p))

(***************************************************************************)
(* Claims about allowed_moves (Spec).                                      *)
(***************************************************************************)
\* C1: no move returned by allowed_moves leaves the mover's own king
\* attacked, wherever the king stands on rows 1..8 and columns 1..8.
C1_NoMoveLeavesKingAttacked ==
    op = "allowed_moves" =>
        \A m \in hs : ~KingAttacked(make_move(piece, m, pp), piece)

\* C10: allowed_moves returns no move for a piece the turn rule rejects
\* (a white piece at an even ply, a black piece at an odd ply).
C10_OutOfTurnYieldsNoMove ==
    (op = "allowed_moves" /\ ~player_order(piece, gd)) => hs = {}

\* The moves of a set with the ply of their resulting state dropped.
WithoutPly(moves) ==
    {<<m.dst, m.typ, m.game_data.mask>> : m \in moves}

\* C10, amended: allowed_moves does not consult the turn rule; for a piece
\* the rule rejects it returns the moves it returns for that piece on that
\* board one ply later, when the rule accepts the piece.
C10_TurnRuleNotConsulted ==
    (op = "allowed_moves" /\ ~panicked /\ ~player_order(piece, gd)) =>
        /\ player_order(piece, [gd EXCEPT !.ply = @ + 1])
        /\ WithoutPly(hs) =
              WithoutPly(allowed_moves(piece, pp, [gd EXCEPT !.ply = @ + 1]))
        /\ \A m \in hs : m.game_data.ply = gd.ply

C10_Witness ==
    /\ op = "allowed_moves"
    /\ ~player_order(piece, gd)
    /\ Cardinality(hs) >= 2
    /\ \E m \in generated_moves(piece, pp, gd) : m \notin hs

(***************************************************************************)
(* Claims about castling (SpecCastle).                                     *)
(***************************************************************************)
RightBit(white, rook_col) ==
    IF white
    THEN IF rook_col = 1 THEN GD_NO_WHITE_QS_CASTLE ELSE GD_NO_WHITE_KS_CASTLE
    ELSE IF rook_col = 1 THEN GD_NO_BLACK_QS_CASTLE ELSE GD_NO_BLACK_KS_CASTLE

\* The castling moves of a set towards the rook of column rook_col.
Castles(moves, rook_col) ==
    {m \in moves : m.typ.kind = "Secondary" /\ m.typ.src.col = rook_col}

\* Columns the king crosses, its destination included.
Transit(rook_col) == IF rook_col = 1 THEN {4, 3} ELSE {6, 7}

\* Columns strictly between the king's home column and the rook.
Inner(rook_col) == IF rook_col = 1 THEN {2, 3, 4} ELSE {6, 7}

CastlePreconditions(board, p, game_data, rook_col) ==
    LET row == HomeRow(is_white(p))
    IN  /\ ~HasBit(game_data.mask, RightBit(is_white(p), rook_col))
        /\ p.row = row /\ p.col = 5
        /\ board[row][rook_col] = OwnRook(p)
        /\ \A c \in Inner(rook_col) : board[row][c] = 0
        /\ ~AttackedBy(board, <<row, 5>>, ~is_white(p))
        /\ \A c \in Transit(rook_col) : ~AttackedBy(board, <<row, c>>, ~is_white(p))

\* C2: a castling move is offered iff the right is available, king and rook
\* stand on their home squares, the squares between them are empty, the
\* king's square is not attacked and no square the king passes through, up
\* to and including its destination, is attacked.
C2_CastleOfferedIff ==
    (op = "allowed_moves" /\ piece.name \in {WK, BK}) =>
        \A rook_col \in {1, 8} :
            (Castles(hs, rook_col) # {}) <=> CastlePreconditions(pp, piece, gd, rook_col)

\* C3: an offered castle is one Secondary move per side; the king goes to
\* column 7 (king-side) or 3 (queen-side), the rook from its corner to
\* column 6 or 4; the resulting state has both rights of the king's colour
\* cleared and the other colour's unchanged; applying it leaves king and
\* rook on those squares, the king's home square and the corner empty, and
\* every other square as it was.
C3_CastleMove ==
    (op = "allowed_moves" /\ piece.name \in {WK, BK}) =>
        /\ \A m \in hs : m.typ.kind = "Secondary" => m.typ.src.col \in {1, 8}
        /\ \A rook_col \in {1, 8} :
              LET row == HomeRow(is_white(piece))
                  kd == IF rook_col = 8 THEN 7 ELSE 3
                  rd == IF rook_col = 8 THEN 6 ELSE 4
              IN  /\ Cardinality(Castles(hs, rook_col)) <= 1
                  /\ \A m \in Castles(hs, rook_col) :
                        /\ m.dst = Piece(row, kd, piece.name)
                        /\ m.typ.src = Piece(row, rook_col, OwnRook(piece))
                        /\ m.typ.dst = Piece(row, rd, OwnRook(piece))
                        /\ m.game_data.ply = gd.ply
                        /\ m.game_data.mask \in 0..15
                        /\ \A b \in OwnRights(piece) : HasBit(m.game_data.mask, b)
                        /\ \A b \in AllRights \ OwnRights(piece) :
                              HasBit(m.game_data.mask, b) <=> HasBit(gd.mask, b)
                        /\ LET after == make_move(piece, m, pp)
                           IN  /\ after[row][kd] = piece.name
                               /\ after[row][rd] = OwnRook(piece)
                               /\ after[row][5] = 0
                               /\ after[row][rook_col] = 0
                               /\ \A r \in Idx, c \in Idx :
                                     (r # row \/ c \notin {5, kd, rd, rook_col})
                                        => after[r][c] = pp[r][c]

C3_Witness ==
    /\ op = "allowed_moves"
    /\ gd.mask # 0
    /\ Castles(hs, 1) # {}
    /\ \E q \in Squares : pp[q[1]][q[2]] \notin {0, WK, BK, WR, BR}

(***************************************************************************)
(* SpecQuery: allowed_moves for any piece kind on any square of a board    *)
(* that holds that one piece, and for a piece that is not on the board at  *)
(* the square it names.                                                    *)
(***************************************************************************)
InitQuery ==
    /\ \E n \in PieceNames, r \in Rows, c \in Cols :
          /\ piece = Piece(r, c, n)
          /\ pp = place(EmptyBoard, piece)
    /\ gd = GameData(1, 0)
    /\ hs = {}
    /\ op = "input"
    /\ panicked = FALSE
    /\ SessionAtRest
    /\ RelayAtRest
    /\ PluginAtRest
    /\ NothingTouched

\* allowed_moves for the piece that stands on the board.
QueryPresent == AllowedMoves(piece.row, piece.col)

\* The squares named by the queries of absent pieces, besides the square of
\* the piece on the board.
AbsentSquares == {<<4, 5>>}

\* allowed_moves for a piece whose square is empty or holds another tag.
QueryAbsent ==
    /\ op = "input"
    /\ \E n \in PieceNames, q \in AbsentSquares \cup {<<piece.row, piece.col>>} :
          /\ pp[q[1]][q[2]] # n
          /\ LET a == Piece(q[1], q[2], n)
             IN  /\ piece' = a
                 /\ panicked' = allowed_moves_panics(a)
                 /\ hs' = IF allowed_moves_panics(a) THEN {} ELSE allowed_moves(a, pp, gd)
    /\ op' = "allowed_moves"
    /\ UNCHANGED <<pp, gd>>
    /\ UNCHANGED <<setup_done, active, rules_update, games, conns, relayed, retval, touched>>

NextQuery ==
    \/ QueryPresent
    \/ QueryAbsent

SpecQuery == InitQuery /\ [][NextQuery]_vars

(***************************************************************************)
(* Claims about the inputs of allowed_moves (SpecQuery).                   *)
(***************************************************************************)
\* C11: allowed_moves returns the empty set, without failing, for a piece
\* that is not on the board at the square it names (the square is empty or
\* holds a different tag).
C11_AbsentPieceYieldsNoMove ==
    (op = "allowed_moves" /\ pp[piece.row][piece.col] # piece.name) =>
        (hs = {} /\ ~panicked)

\* C19: allowed_moves completes without a panic for every piece kind and
\* colour on every square of rows 1..8 and columns 1..8, pawns on their last
\* rank included.
C19_AllowedMovesNeverPanics ==
    (/\ op = "allowed_moves"
     /\ std_in_bounds(piece.row, piece.col)
     /\ pp[piece.row][piece.col] = piece.name) => ~panicked

(***************************************************************************)
(* The game session of src/ui/src/main.rs: Game::new, Game::setup and      *)
(* Game::try_move.                                                         *)
(***************************************************************************)
\* Mutant of setup_rule: the queens are put on the kings' squares.
setup_rule_queens_on_kings(rule) ==
    CASE rule = "pawns" ->
            {Piece(2, c, WP) : c \in 1..8} \cup {Piece(7, c, BP) : c \in 1..8}
      [] rule = "rooks" ->
            {Piece(1, 1, WR), Piece(1, 8, WR), Piece(8, 1, BR), Piece(8, 8, BR)}
      [] rule = "knights" ->
            {Piece(1, 2, WN), Piece(1, 7, WN), Piece(8, 2, BN), Piece(8, 7, BN)}
      [] rule = "bishops" ->
            {Piece(1, 3, WB), Piece(1, 6, WB), Piece(8, 3, BB), Piece(8, 6, BB)}
      [] rule = "queens" -> {Piece(1, 5, WQ), Piece(8, 5, BQ)}
      [] rule = "kings" -> {Piece(1, 5, WK), Piece(8, 5, BK)}

\* The pieces each setup rule returns.
setup_rule(rule) ==
    CASE rule = "pawns" ->
            {Piece(2, c, WP) : c \in 1..8} \cup {Piece(7, c, BP) : c \in 1..8}
      [] rule = "rooks" ->
            {Piece(1, 1, WR), Piece(1, 8, WR), Piece(8, 1, BR), Piece(8, 8, BR)}
      [] rule = "knights" ->
            {Piece(1, 2, WN), Piece(1, 7, WN), Piece(8, 2, BN), Piece(8, 7, BN)}
      [] rule = "bishops" ->
            {Piece(1, 3, WB), Piece(1, 6, WB), Piece(8, 3, BB), Piece(8, 6, BB)}
      [] rule = "queens" -> {Piece(1, 4, WQ), Piece(8, 4, BQ)}
      [] rule = "kings" -> {Piece(1, 5, WK), Piece(8, 5, BK)}

\* The default turn rule of the session, called with the mover's side index
\* (0 for white, 1 for black): the piece is of the mover's colour and the
\* ply's parity gives the move to that side.
turn_rule(player, p, game_data) ==
    /\ is_white(p) = (player = 0)
    /\ (game_data.ply % 2 = 1) = (player = 0)

\* Mutant of is_turn: the turn rules are not asked.
is_turn_asks_no_rule(player, p, game_data) == TRUE

\* Game::is_turn: some turn rule accepts (the registry holds one rule).
is_turn(player, p, game_data) == turn_rule(player, p, game_data)

\* Game::get_legal: the moves find() may return; the empty set is None.
get_legal(player, p, to, board, game_data) ==
    IF ~is_turn(player, p, game_data) THEN {}
    ELSE {m \in allowed_moves(p, board, game_data) :
             m.dst.row = to[1] /\ m.dst.col = to[2]}

\* Game::get_legal panics when allowed_moves does.
get_legal_panics(player, p, game_data) ==
    is_turn(player, p, game_data) /\ allowed_moves_panics(p)

\* Mutant of next_game_data: the ply is not incremented.
next_game_data_keeps_ply(m) == m.game_data

\* The game data try_move stores after applying m.
next_game_data(m) == [m.game_data EXCEPT !.ply = @ + 1]

(***************************************************************************)
(* SpecGame: a session from Game::new on.  The setup rules are applied in  *)
(* the order the registry's HashMap yields them, any order; then moves are *)
(* attempted, by either player, between the squares of InputSquares.  The  *)
(* js-plugin rule is taken to return no move.                              *)
(***************************************************************************)
\* Squares of the attempted moves: the white king's side of row 1, e2, e3,
\* f3, e5, and g8, h8, f6, f7.
InputSquares ==
    {<<1, 5>>, <<1, 6>>, <<1, 7>>, <<1, 8>>, <<2, 5>>, <<3, 5>>, <<3, 6>>, <<5, 5>>,
     <<8, 7>>, <<8, 8>>, <<6, 6>>, <<7, 6>>}

\* A destination outside the board.
OutOfBounds == {<<0, 5>>}

NoPiece == Piece(0, 0, 0)

InitGame ==
    /\ pp = EmptyBoard
    /\ gd = GameData(1, 0)
    /\ piece = NoPiece
    /\ hs = {}
    /\ op = "new"
    /\ panicked = FALSE
    /\ setup_done = {}
    /\ active = [n \in AllMovementRuleNames |-> TRUE]
    /\ rules_update = None
    /\ RelayAtRest
    /\ PluginAtRest
    /\ NothingTouched

\* One iteration of the loop of Game::setup.
SetupStep(rule) ==
    /\ rule \in SetupRuleNames \ setup_done
    /\ pp' = place_all(pp, setup_rule(rule))
    /\ setup_done' = setup_done \cup {rule}
    /\ op' = "setup"
    /\ UNCHANGED <<gd, piece, hs, panicked, active, rules_update, games, conns, relayed, retval, touched>>

\* A move attempt that changes nothing; op records why it was rejected.
Rejected(why) ==
    /\ op' = why
    /\ UNCHANGED <<pp, gd, piece, hs, panicked, touched>>

\* The squares move m of the piece on src leaves or lands on (history).
Touches(src, m) ==
    {src, <<m.dst.row, m.dst.col>>}
    \cup (IF m.typ.kind = "Capture" THEN {<<m.typ.row, m.typ.col>>} ELSE {})
    \cup (IF m.typ.kind = "Secondary"
          THEN {<<m.typ.src.row, m.typ.src.col>>, <<m.typ.dst.row, m.typ.dst.col>>}
          ELSE {})

\* Game::try_move(player, sr, sc, dr, dc), followed while the ply is at most
\* max_ply.
TryMoveUpTo(max_ply, player, src, dst) ==
    /\ setup_done = SetupRuleNames
    /\ ~panicked
    /\ gd.ply <= max_ply
    /\ LET name == pp[src[1]][src[2]]
           source_piece == Piece(src[1], src[2], name)
           legal == get_legal(player, source_piece, dst, pp, gd)
       IN  IF ~std_in_bounds(dst[1], dst[2]) THEN Rejected("rejected_bounds")
           ELSE IF name = 0 THEN Rejected("rejected_empty")
           ELSE IF get_legal_panics(player, source_piece, gd)
                THEN /\ panicked' = TRUE
                     /\ op' = "panicked"
                     /\ UNCHANGED <<pp, gd, piece, hs, touched>>
           ELSE IF ~is_turn(player, source_piece, gd) THEN Rejected("rejected_turn")
           ELSE IF legal = {} THEN Rejected("rejected_dest")
           ELSE \E m \in legal :
                   /\ pp' = make_move(source_piece, m, pp)
                   /\ gd' = next_game_data(m)
                   /\ piece' = source_piece
                   /\ hs' = {m}
                   /\ touched' = touched \cup Touches(src, m)
                   /\ op' = "applied"
                   /\ UNCHANGED panicked
    /\ UNCHANGED <<setup_done, active, rules_update, games, conns, relayed, retval>>

TryMove(player, src, dst) == TryMoveUpTo(MaxPly, player, src, dst)

NextGame ==
    \/ \E rule \in SetupRuleNames : SetupStep(rule)
    \/ \E player \in {0, 1}, src \in InputSquares, dst \in InputSquares \cup OutOfBounds :
          TryMove(player, src, dst)

SpecGame == InitGame /\ [][NextGame]_vars

(***************************************************************************)
(* Claims about the game session (SpecGame).                               *)
(***************************************************************************)
\* Every right lost in mask `before` is lost in mask `after`.
KeepsLostRights(before, after) == BitAnd(after, before) = before

\* The pieces standing on rows 1..8, columns 1..8 of a board.
PiecesOn(board) ==
    {Piece(q[1], q[2], board[q[1]][q[2]]) : q \in {x \in Squares : board[x[1]][x[2]] # 0}}

\* C12: castling rights are lost monotonically.  No step of a session gives
\* back a right that was lost, and when a move is applied every move the
\* movement rules generate for any piece of the position carries a mask that
\* keeps every right lost in the queried state.
C12_RightsLostMonotonically ==
    [][/\ KeepsLostRights(gd.mask, gd'.mask)
       /\ op' = "applied" =>
             \A q \in PiecesOn(pp) :
                \A m \in generated_moves(q, pp, gd) :
                   KeepsLostRights(gd.mask, m.game_data.mask)]_vars

\* A move was applied after both a white and a black right had been lost.
C12_Witness ==
    /\ op = "applied"
    /\ gd.mask # 0
    /\ \E m \in hs : m.game_data.mask = gd.mask
    /\ \E w \in {GD_NO_WHITE_KS_CASTLE, GD_NO_WHITE_QS_CASTLE} : HasBit(gd.mask, w)
    /\ \E b \in {GD_NO_BLACK_KS_CASTLE, GD_NO_BLACK_QS_CASTLE} : HasBit(gd.mask, b)

(***************************************************************************)
(* Claims about captures of rooks (SpecRules).                             *)
(***************************************************************************)
\* The square holds a rook on its canonical home square.
RookAtHome(board, r, c) ==
    \/ board[r][c] = WR /\ r = 1 /\ c \in {1, 8}
    \/ board[r][c] = BR /\ r = 8 /\ c \in {1, 8}

\* C13: a generated Capture move that captures a rook standing on its home
\* square carries a mask in which the castling right of that corner is
\* cleared, whatever the capturing piece.
C13_CornerRookCaptureClearsRight ==
    op # "input" =>
        \A m \in hs :
            (m.typ.kind = "Capture" /\ RookAtHome(pp, m.typ.row, m.typ.col)) =>
                HasBit(m.game_data.mask,
                       RightBit(is_piece_white(pp[m.typ.row][m.typ.col]), m.typ.col))

\* The outcomes of a rejected move attempt.
Rejections == {"rejected_bounds", "rejected_empty", "rejected_turn", "rejected_dest"}

\* C14: the ply of a session starts at 1 and grows by exactly one with every
\* applied move; a rejected attempt (destination out of bounds, empty source
\* square, not this side's turn, destination not among the allowed moves)
\* leaves ply, castling rights and board as they were, and nothing but an
\* applied move changes the board or the game data once the board is set up.
C14_PlyCountsAppliedMoves ==
    [][/\ op \in {"new", "setup"} => gd = GameData(1, 0)
       /\ op' = "applied" => (gd'.ply = gd.ply + 1 /\ pp' # pp)
       /\ op' \in Rejections => (pp' = pp /\ gd' = gd)
       /\ (setup_done = SetupRuleNames /\ (pp' # pp \/ gd' # gd)) => op' = "applied"]_vars

\* A move attempt was rejected after moves had been applied and rights lost.
C14_Witness ==
    /\ op = "rejected_dest"
    /\ gd.ply > 2
    /\ gd.mask # 0

(***************************************************************************)
(* The loops of allowed_moves and constrain_moves as the code runs them:   *)
(* the rules and the candidates are visited in the order the HashMap and   *)
(* the HashSet yield them, and the candidates share one scratch board.     *)
(***************************************************************************)
\* The rule loop of allowed_moves over the rules in the given order.
RECURSIVE allowed_in_order(_, _, _, _)
allowed_in_order(rules, p, board, game_data) ==
    IF rules = <<>> THEN {}
    ELSE LET rest == allowed_in_order(SubSeq(rules, 1, Len(rules) - 1), p, board, game_data)
             r == rules[Len(rules)]
         IN  IF rule_applies(r, p)
             THEN rest \cup movement_rule(r, p, board, game_data)
             ELSE rest

\* Mutant of filter_candidate: the destination square is not reset.
filter_candidate_keeps_dst(post_pp, m, p, board, game_data) ==
    LET made == make_move(p, m, post_pp)
        r1 == put(made, p.row, p.col, board[p.row][p.col])
        r2 == CASE m.typ.kind = "Capture" ->
                      put(r1, m.typ.row, m.typ.col, board[m.typ.row][m.typ.col])
                [] m.typ.kind = "Secondary" ->
                      put(put(r1, m.typ.src.row, m.typ.src.col,
                              board[m.typ.src.row][m.typ.src.col]),
                          m.typ.dst.row, m.typ.dst.col,
                          board[m.typ.dst.row][m.typ.dst.col])
                [] OTHER -> r1
    IN  [allow |-> resolve_check(p, made, game_data), post_pp |-> r2]

\* Mutant of filter_candidate: the squares of a Secondary move's other piece
\* are not reset.
filter_candidate_keeps_secondary(post_pp, m, p, board, game_data) ==
    LET made == make_move(p, m, post_pp)
        r1 == put(put(made, p.row, p.col, board[p.row][p.col]),
                  m.dst.row, m.dst.col, board[m.dst.row][m.dst.col])
        r2 == CASE m.typ.kind = "Capture" ->
                      put(r1, m.typ.row, m.typ.col, board[m.typ.row][m.typ.col])
                [] OTHER -> r1
    IN  [allow |-> resolve_check(p, made, game_data), post_pp |-> r2]
\* The filter closure of constrain_moves on the shared scratch board: the
\* move is made, the constraint rules are asked, the squares written are
\* reset from the original board.
filter_candidate(post_pp, m, p, board, game_data) ==
    LET made == make_move(p, m, post_pp)
        r1 == put(put(made, p.row, p.col, board[p.row][p.col]),
                  m.dst.row, m.dst.col, board[m.dst.row][m.dst.col])
        r2 == CASE m.typ.kind = "Capture" ->
                      put(r1, m.typ.row, m.typ.col, board[m.typ.row][m.typ.col])
                [] m.typ.kind = "Secondary" ->
                      put(put(r1, m.typ.src.row, m.typ.src.col,
                              board[m.typ.src.row][m.typ.src.col]),
                          m.typ.dst.row, m.typ.dst.col,
                          board[m.typ.dst.row][m.typ.dst.col])
                [] OTHER -> r1
    IN  [allow |-> resolve_check(p, made, game_data), post_pp |-> r2]

\* constrain_moves over the candidates in the given order, from the scratch
\* board post_pp on: the moves kept and the scratch board left.
RECURSIVE constrain_in_order(_, _, _, _, _)
constrain_in_order(ms, post_pp, p, board, game_data) ==
    IF ms = <<>> THEN [kept |-> {}, post_pp |-> post_pp]
    ELSE LET f == filter_candidate(post_pp, Head(ms), p, board, game_data)
             rest == constrain_in_order(Tail(ms), f.post_pp, p, board, game_data)
         IN  [kept |-> (IF f.allow THEN {Head(ms)} ELSE {}) \cup rest.kept,
              post_pp |-> rest.post_pp]

(***************************************************************************)
(* SpecOrder: allowed_moves for a king on its home square with both corner *)
(* rooks and at most one enemy piece near the home row.                    *)
(***************************************************************************)
InitOrder ==
    /\ \E white \in BOOLEAN :
          \E enemy \in AtMostOne(EnemyPieces(white)) :
             Position(white, <<HomeRow(white), 5>>, CornerRooks(white) \cup enemy)
    /\ gd \in {GameData(1, 0), GameData(2, BitOr(GD_NO_BLACK_KS_CASTLE, GD_NO_WHITE_QS_CASTLE))}
    /\ hs = {}
    /\ op = "input"
    /\ panicked = FALSE
    /\ SessionAtRest
    /\ RelayAtRest
    /\ PluginAtRest
    /\ NothingTouched

HomeKingQuery == AllowedMoves(piece.row, piece.col)

NextOrder == HomeKingQuery

SpecOrder == InitOrder /\ [][NextOrder]_vars

(***************************************************************************)
(* Claims about iteration order (SpecOrder).                               *)
(***************************************************************************)
\* The sequences of n distinct elements of S.
Arrangements(S, n) ==
    {s \in [1..n -> S] : \A i, j \in 1..n : s[i] = s[j] => i = j}

\* The sequences of at most n distinct elements of S.
ArrangementsUpTo(S, n) == UNION {Arrangements(S, k) : k \in 0..n}

Range(s) == {s[i] : i \in DOMAIN s}

\* C15: the set allowed_moves returns does not depend on the order in which
\* the movement rules are iterated nor on the order in which the candidates
\* are filtered: every order of the rules accumulates the same candidates,
\* and the candidates of any sequence, tried one after the other on the
\* shared scratch board, are kept exactly when allowed_moves returns them,
\* the scratch board being the original board again after each.
C15_OrderDoesNotMatter ==
    op = "allowed_moves" =>
        LET applicable == {r \in MovementRuleNames : rule_applies(r, piece)}
            candidates == generated_moves(piece, pp, gd)
        IN  /\ \A rules \in Arrangements(applicable, Cardinality(applicable)) :
                  allowed_in_order(rules, piece, pp, gd) = candidates
            /\ \A ms \in ArrangementsUpTo(candidates, MaxTried) :
                  LET res == constrain_in_order(ms, pp, piece, pp, gd)
                  IN  /\ res.kept = hs \cap Range(ms)
                      /\ res.post_pp = pp

\* A king with three applicable rules got a castling move, a capture and a
\* plain step, and lost a candidate to the constraint rule.
C15_Witness ==
    /\ op = "allowed_moves"
    /\ \E m \in hs : m.typ.kind = "Secondary"
    /\ \E m \in hs : m.typ.kind = "Capture"
    /\ \E m \in hs : m.typ.kind = "Normal"
    /\ hs # generated_moves(piece, pp, gd)

(***************************************************************************)
(* Claims about move application (SpecCastle).                             *)
(***************************************************************************)
\* The mover as it stands after move m of piece p.
Moved(p, m) == Piece(m.dst.row, m.dst.col, p.name)

\* The hand-made inverse of move m of piece p on `board`: the mover goes
\* back to its square; a captured piece is put back, a castled rook is taken
\* back to its corner, as the secondary piece of the inverse move.
Undo(p, m, board) ==
    [dst |-> p,
     typ |-> CASE m.typ.kind = "Normal" -> [kind |-> "Normal"]
               [] m.typ.kind = "Capture" ->
                     LET taken == Piece(m.typ.row, m.typ.col, board[m.typ.row][m.typ.col])
                     IN  [kind |-> "Secondary", src |-> taken, dst |-> taken]
               [] m.typ.kind = "Secondary" ->
                     [kind |-> "Secondary", src |-> m.typ.dst, dst |-> m.typ.src],
     game_data |-> m.game_data]

\* C16: applying a move returned by allowed_moves and then its hand-made
\* inverse gives back the board, square for square, for Normal, Capture and
\* Secondary moves.
C16_MakeMoveRoundTrip ==
    op = "allowed_moves" =>
        \A m \in hs :
            make_move(Moved(piece, m), Undo(piece, m, pp), make_move(piece, m, pp)) = pp

\* A query returned moves of the three kinds.
C16_Witness ==
    /\ op = "allowed_moves"
    /\ {m.typ.kind : m \in hs} = {"Normal", "Capture", "Secondary"}

(***************************************************************************)
(* Claims about the setup (SpecGame).                                      *)
(***************************************************************************)
\* The standard initial position, rank by rank.
BackRank(white) ==
    IF white THEN <<WR, WN, WB, WQ, WK, WB, WN, WR>>
    ELSE <<BR, BN, BB, BQ, BK, BB, BN, BR>>

StandardPosition ==
    [r \in Idx |-> [c \in Idx |->
        IF c = 0 THEN 0
        ELSE CASE r = 1 -> BackRank(TRUE)[c]
               [] r = 2 -> WP
               [] r = 7 -> BP
               [] r = 8 -> BackRank(FALSE)[c]
               [] OTHER -> 0]]

\* The squares of the whole array that hold a piece.
Occupied(board) == {q \in Idx \X Idx : board[q[1]][q[2]] # 0}

RECURSIVE SumOver(_, _)
SumOver(S, f) ==
    IF S = {} THEN 0
    ELSE LET x == CHOOSE y \in S : TRUE IN f[x] + SumOver(S \ {x}, f)

\* C17: the setup rules write pairwise disjoint squares, so in whatever
\* order they are applied no rule overwrites another (the board holds as
\* many pieces as the applied rules returned, each on its square) and the
\* six of them give the standard initial position: 32 pieces, white on rows
\* 1 and 2, black on rows 7 and 8, every other square empty.
C17_SetupOrderImmaterial ==
    op \in {"new", "setup"} =>
        /\ Cardinality(Occupied(pp)) =
              SumOver(setup_done, [r \in SetupRuleNames |-> Cardinality(setup_rule(r))])
        /\ \A r \in setup_done : \A q \in setup_rule(r) : pp[q.row][q.col] = q.name
        /\ setup_done = SetupRuleNames =>
              /\ pp = StandardPosition
              /\ Cardinality(Occupied(pp)) = 32
              /\ \A q \in Occupied(pp) :
                    /\ std_in_bounds(q[1], q[2])
                    /\ is_piece_white(pp[q[1]][q[2]]) = (q[1] \in {1, 2})
                    /\ ~is_piece_white(pp[q[1]][q[2]]) = (q[1] \in {7, 8})

\* The six setup rules have been applied.
C17_Witness ==
    /\ op = "setup"
    /\ setup_done = SetupRuleNames

(***************************************************************************)
(* Rule toggling: rules_update (called from JavaScript) leaves a mapping   *)
(* from rule names to booleans, Game::handle_js_changes applies it at the  *)
(* start of the next frame.  The session's rules module keeps an active    *)
(* flag in each MovementRule and its allowed_moves skips inactive rules.   *)
(***************************************************************************)
\* allowed_moves of the session's rules module: the rules whose flag is off
\* are skipped, the others run as in allowed_moves.  The js-plugin rule is
\* taken to return no move.
allowed_moves_active(p, board, game_data, act) ==
    constrain_moves(
        UNION {movement_rule(rule, p, board, game_data) :
                  rule \in {x \in MovementRuleNames : act[x] /\ rule_applies(x, p)}},
        p, board, game_data)

\* rules_update(json): a mapping that parses is stored, replacing a pending one.
RulesUpdate(v) ==
    /\ rules_update' = Some(v)
    /\ op' = "rules_update"
    /\ UNCHANGED <<pp, gd, piece, hs, panicked, setup_done, active, games, conns, relayed, retval, touched>>

\* The flags after the loop of handle_js_changes over the registry.
toggled(act, v) ==
    [n \in DOMAIN act |-> IF n \in DOMAIN v /\ act[n] # v[n] THEN v[n] ELSE act[n]]

\* Mutant of HandleJsChanges: the mapping is applied but stays pending.
HandleJsChanges_KeepsPending ==
    /\ rules_update # None
    /\ \E v \in rules_update : active' = toggled(active, v)
    /\ UNCHANGED rules_update
    /\ op' = "handle_js_changes"
    /\ UNCHANGED <<pp, gd, piece, hs, panicked, setup_done, games, conns, relayed, retval, touched>>

\* Game::handle_js_changes with a mapping pending (with none pending it
\* changes nothing).
HandleJsChanges ==
    /\ rules_update # None
    /\ \E v \in rules_update : active' = toggled(active, v)
    /\ rules_update' = None
    /\ op' = "handle_js_changes"
    /\ UNCHANGED <<pp, gd, piece, hs, panicked, setup_done, games, conns, relayed, retval, touched>>

(***************************************************************************)
(* SpecToggle: the standard position at ply 1; mappings over two rule      *)
(* names and a name that is not in the registry; queries for the knight on *)
(* b1 and the pawn on e2.  A query runs in a frame after handle_js_changes,*)
(* so no mapping is pending when it runs.                                  *)
(***************************************************************************)
ToggleNames == {"knight", "pawn-movement", "no-such-rule"}

ToggleMappings == UNION {[S -> BOOLEAN] : S \in SUBSET ToggleNames}

ToggleSquares == {<<1, 2>>, <<2, 5>>}

InitToggle ==
    /\ pp = place_all(EmptyBoard, UNION {setup_rule(r) : r \in SetupRuleNames})
    /\ gd = GameData(1, 0)
    /\ piece = NoPiece
    /\ hs = {}
    /\ op = "setup"
    /\ panicked = FALSE
    /\ SessionAtRest
    /\ RelayAtRest
    /\ PluginAtRest
    /\ NothingTouched

\* allowed_moves of the session for the piece on square q.
ActiveQuery(q) ==
    /\ rules_update = None
    /\ pp[q[1]][q[2]] # 0
    /\ piece' = Piece(q[1], q[2], pp[q[1]][q[2]])
    /\ hs' = allowed_moves_active(piece', pp, gd, active)
    /\ op' = "allowed_moves"
    /\ UNCHANGED <<pp, gd, panicked, setup_done, active, rules_update, games, conns, relayed, retval, touched>>

NextToggle ==
    \/ \E v \in ToggleMappings : RulesUpdate(v)
    \/ HandleJsChanges
    \/ \E q \in ToggleSquares : ActiveQuery(q)

SpecToggle == InitToggle /\ [][NextToggle]_vars

(***************************************************************************)
(* Claims about rule toggling (SpecToggle).                                *)
(***************************************************************************)
\* The rules that run for piece p under the flags act.
Contributing(p, act) == {r \in MovementRuleNames : act[r] /\ rule_applies(r, p)}

\* C18: the registry keeps its entries whatever is toggled; a pending
\* mapping sets the flag of every rule it names, leaves the others, and is
\* discarded by the step that applies it; flags change in no other step; a
\* query returns no move of an inactive rule, and with the piece's rules
\* active (again) it returns what allowed_moves returns.
C18_RuleToggling ==
    [][/\ DOMAIN active = AllMovementRuleNames
       /\ DOMAIN active' = AllMovementRuleNames
       /\ rules_update = None => active' = active
       /\ rules_update # None /\ rules_update' = None =>
             \E v \in rules_update :
                \A n \in AllMovementRuleNames :
                   active'[n] = IF n \in DOMAIN v THEN v[n] ELSE active[n]
       /\ active' # active => rules_update' = None
       /\ op' = "allowed_moves" =>
             /\ \A m \in hs' :
                   \E r \in Contributing(piece', active') :
                      m \in movement_rule(r, piece', pp', gd')
             /\ Contributing(piece', active') = {} => hs' = {}
             /\ (\A r \in MovementRuleNames : rule_applies(r, piece') => active'[r]) =>
                   hs' = allowed_moves(piece', pp', gd')]_vars

\* With the pawn-movement rule switched off and the knight rule active, the
\* query for the knight returns its moves.
C18_Witness ==
    /\ op = "allowed_moves"
    /\ piece.name = WN
    /\ hs # {}
    /\ ~active["pawn-movement"]
    /\ active["knight"]
    /\ rules_update = None

(***************************************************************************)
(* The relay of src/server/src/main.rs.  A connection is known by its      *)
(* player id, a game by the id of the connection that created it (both are *)
(* fresh UUIDs in the code).  Every step below runs under the lock of the  *)
(* games map.                                                              *)
(***************************************************************************)
ConnIds == 1..MaxConns

\* The first message a game's first player gets.
game_info(g) == [kind |-> "game_info", game_id |-> g]

\* A text message of player p, as forwarded.
text_of(p) == [kind |-> "text", from |-> p]

\* tx.send(msg) on the channels of the players in `to`.
send(cs, to, msg) ==
    [q \in DOMAIN cs |-> IF q \in to THEN [cs[q] EXCEPT !.rx = Append(@, msg)] ELSE cs[q]]

\* The number of texts a channel was sent.
texts(rx) == Len(SelectSeq(rx, LAMBDA m : m.kind = "text"))

\* The id a new connection gets: fresh, the ids being handed out in order.
new_v4 == Cardinality(DOMAIN conns) + 1

\* create_game up to its call of join_game: the game is inserted, empty.
CreateGame(p) ==
    /\ p = new_v4
    /\ games' = games @@ (p :> {})
    /\ conns' = conns @@ (p :> [game_id |-> p, pc |-> "join", rx |-> <<>>])
    /\ op' = "create_game"
    /\ UNCHANGED <<pp, gd, piece, hs, panicked, setup_done, active, rules_update, relayed,
                   retval, touched>>

\* An id that parses and is the id of no game.
unknown_id == 0

\* The game ids a client can name: an id is random and is told to nobody but
\* the first player of the game, so the known ids are those of the games
\* whose creator has gone through join_game.
known_ids == {g \in DOMAIN conns : conns[g].game_id = g /\ conns[g].pc # "join"}

\* The join route: a new connection asks for game g.
Connect(p, g) ==
    /\ p = new_v4
    /\ g \in known_ids \cup {unknown_id}
    /\ conns' = conns @@ (p :> [game_id |-> g, pc |-> "join", rx |-> <<>>])
    /\ op' = "connect"
    /\ UNCHANGED <<pp, gd, piece, hs, panicked, setup_done, active, rules_update,
                   games, relayed, retval, touched>>

\* join_game up to its receive loop: the player is registered, the first
\* player of a game is sent the game id; for an unknown game the function
\* returns.
JoinGame(p) ==
    /\ p \in DOMAIN conns
    /\ conns[p].pc = "join"
    /\ LET g == conns[p].game_id
       IN  IF g \in DOMAIN games
           THEN /\ games' = [games EXCEPT ![g] = @ \cup {p}]
                /\ conns' = [send(conns, IF games[g] = {} THEN {p} ELSE {}, game_info(g))
                                EXCEPT ![p].pc = "loop"]
           ELSE /\ conns' = [conns EXCEPT ![p].pc = "closed"]
                /\ UNCHANGED games
    /\ op' = "join_game"
    /\ UNCHANGED <<pp, gd, piece, hs, panicked, setup_done, active, rules_update, relayed,
                   retval, touched>>

\* Mutant of ProcessMessage: the sender is not left out.
ProcessMessage_EchoesToSender(p, text) ==
    /\ p \in DOMAIN conns
    /\ conns[p].pc = "loop"
    /\ \A q \in DOMAIN conns : texts(conns[q].rx) < MaxInbox
    /\ LET g == conns[p].game_id
       IN  /\ conns' = IF text /\ g \in DOMAIN games
                       THEN send(conns, games[g], text_of(p))
                       ELSE conns
           /\ relayed' = [from |-> p, game_id |-> g, text |-> text]
    /\ op' = "process_message"
    /\ UNCHANGED <<pp, gd, piece, hs, panicked, setup_done, active, rules_update, games,
                   retval, touched>>

\* process_message for a message player p's client sent: a message that is
\* not text is skipped, a text is sent to every other player of the game.
ProcessMessage(p, text) ==
    /\ p \in DOMAIN conns
    /\ conns[p].pc = "loop"
    /\ \A q \in DOMAIN conns : texts(conns[q].rx) < MaxInbox
    /\ LET g == conns[p].game_id
       IN  /\ conns' = IF text /\ g \in DOMAIN games
                       THEN send(conns, {pid \in games[g] : pid # p}, text_of(p))
                       ELSE conns
           /\ relayed' = [from |-> p, game_id |-> g, text |-> text]
    /\ op' = "process_message"
    /\ UNCHANGED <<pp, gd, piece, hs, panicked, setup_done, active, rules_update, games,
                   retval, touched>>

\* Mutant of PlayerDisconnected: the game is kept when its last player has
\* left.
PlayerDisconnected_KeepsEmptyGame(p) ==
    /\ p \in DOMAIN conns
    /\ conns[p].pc = "loop"
    /\ LET g == conns[p].game_id
       IN  games' = IF g \in DOMAIN games
                    THEN [games EXCEPT ![g] = @ \ {p}]
                    ELSE games
    /\ conns' = [conns EXCEPT ![p].pc = "closed", ![p].rx = <<>>]
    /\ op' = "player_disconnected"
    /\ UNCHANGED <<pp, gd, piece, hs, panicked, setup_done, active, rules_update, relayed,
                   retval, touched>>

\* The receive loop ends and player_disconnected runs: the player is
\* removed, and the game with its last player; the player's sender is dropped
\* with its entry, which ends the channel.
PlayerDisconnected(p) ==
    /\ p \in DOMAIN conns
    /\ conns[p].pc = "loop"
    /\ LET g == conns[p].game_id
       IN  games' = IF g \in DOMAIN games
                    THEN IF games[g] \ {p} = {}
                         THEN [x \in DOMAIN games \ {g} |-> games[x]]
                         ELSE [games EXCEPT ![g] = @ \ {p}]
                    ELSE games
    /\ conns' = [conns EXCEPT ![p].pc = "closed", ![p].rx = <<>>]
    /\ op' = "player_disconnected"
    /\ UNCHANGED <<pp, gd, piece, hs, panicked, setup_done, active, rules_update, relayed,
                   retval, touched>>

InitRelay ==
    /\ pp = EmptyBoard
    /\ gd = GameData(1, 0)
    /\ piece = NoPiece
    /\ hs = {}
    /\ op = "start"
    /\ panicked = FALSE
    /\ SessionAtRest
    /\ RelayAtRest
    /\ PluginAtRest
    /\ NothingTouched

NextRelay ==
    \/ \E p \in ConnIds : CreateGame(p)
    \/ \E p \in ConnIds, g \in ConnIds \cup {unknown_id} : Connect(p, g)
    \/ \E p \in ConnIds : JoinGame(p)
    \/ \E p \in ConnIds, text \in BOOLEAN : ProcessMessage(p, text)
    \/ \E p \in ConnIds : PlayerDisconnected(p)

SpecRelay == InitRelay /\ [][NextRelay]_vars

\* The players registered in the game the connection p belongs to.
Registered(p) ==
    IF conns[p].game_id \in DOMAIN games THEN games[conns[p].game_id] ELSE {}

\* C20: when process_message handles a text message of a player, the channel
\* of every other player registered in that player's game gains exactly that
\* message, and no other channel changes: not the sender's, not that of a
\* player of another game; when the message is not text no channel changes.
C20_RelayFanOut ==
    [][ op' = "process_message" =>
          LET p == relayed'.from
          IN  \A q \in DOMAIN conns :
                conns'[q].rx =
                    IF /\ relayed'.text
                       /\ q # p
                       /\ q \in Registered(p)
                       /\ conns[q].game_id = conns[p].game_id
                    THEN Append(conns[q].rx, text_of(p))
                    ELSE conns[q].rx ]_vars

\* Two games with registered players, the sender's game holding another
\* player who has just been sent the sender's text while the player of the
\* other game has not.
C20_Witness ==
    /\ op = "process_message"
    /\ relayed.text
    /\ \E q \in Registered(relayed.from) \ {relayed.from} :
          /\ Len(conns[q].rx) > 0
          /\ conns[q].rx[Len(conns[q].rx)] = text_of(relayed.from)
    /\ \E r \in DOMAIN conns :
          /\ conns[r].pc = "loop"
          /\ conns[r].game_id # relayed.game_id
          /\ r \in Registered(r)
          /\ \A i \in 1..Len(conns[r].rx) : conns[r].rx[i].kind = "game_info"

(***************************************************************************)
(* Claims about the rook rule (SpecRules).                                 *)
(***************************************************************************)
\* The four castling rights, as bits of the mask.
RightBits ==
    {GD_NO_WHITE_KS_CASTLE, GD_NO_BLACK_KS_CASTLE,
     GD_NO_WHITE_QS_CASTLE, GD_NO_BLACK_QS_CASTLE}

\* The rights tied to a square: one for a corner, none for any other square.
CornerRights(r, c) ==
    IF r \in {1, 8} /\ c \in {1, 8} THEN {RightBit(r = 1, c)} ELSE {}

\* C21: every move generated for a rook on a corner square has that corner's
\* castling right cleared and the other three rights as in the queried
\* state; every move generated for a rook on any other square has the four
\* rights as in the queried state.
C21_RookCornerClearsItsRight ==
    op = "rook" =>
        \A m \in hs : \A b \in RightBits :
            HasBit(m.game_data.mask, b) =
                (b \in CornerRights(piece.row, piece.col) \/ HasBit(gd.mask, b))

\* A rook on a corner with moves, queried in a state where a right of each
\* colour is already lost and the corner's own right is not.
C21_Witness ==
    /\ op = "rook"
    /\ hs # {}
    /\ gd.mask # 0
    /\ \E b \in CornerRights(piece.row, piece.col) : ~HasBit(gd.mask, b)

(***************************************************************************)
(* SpecAttack: piece_attacked applied to the targets its two callers pass  *)
(* (the king's square found by find_piece on rows and columns up to 7, and *)
(* add_castle's squares of the home row between the rooks), on a board     *)
(* with one other piece near the target and at most one piece between.     *)
(***************************************************************************)
\* The squares resolve-check and add_castle ask about for a side.
AttackTargets(white) ==
    {q \in Squares : q[1] <= 7 /\ q[2] <= 7}
    \cup {q \in Squares : q[1] = (IF white THEN 1 ELSE 8) /\ q[2] \in 2..7}

\* The targets that are checked: corner, edge and inner squares.
TargetMenu ==
    {<<1, 1>>, <<1, 5>>, <<4, 1>>, <<4, 4>>, <<7, 3>>, <<7, 7>>, <<8, 2>>, <<8, 5>>}

\* The pieces that stand between in the checked boards.
BlockerNames == {WP, BP}

InitAttack ==
    /\ \E white \in BOOLEAN :
       \E t \in AttackTargets(white) \cap TargetMenu,
          a \in Squares, n \in PieceNames, own \in BOOLEAN :
          LET k == IF white THEN WK ELSE BK
              b0 == IF own THEN put(EmptyBoard, t[1], t[2], k) ELSE EmptyBoard
              b1 == put(b0, a[1], a[2], n)
          IN  /\ near(a, t[1], t[2])
              /\ piece = Piece(t[1], t[2], k)
              /\ \/ pp = b1
                 \/ /\ a[1] = t[1] \/ a[2] = t[2] \/ Abs(a[1] - t[1]) = Abs(a[2] - t[2])
                    /\ \E q \in Between(a, t), o \in BlockerNames : pp = put(b1, q[1], q[2], o)
    /\ \E m \in MaskMenu : gd = GameData(1, m)
    /\ hs = {}
    /\ op = "input"
    /\ panicked = FALSE
    /\ SessionAtRest
    /\ RelayAtRest
    /\ PluginAtRest
    /\ NothingTouched

\* One call of piece_attacked; hs holds the value it returned.
PieceAttacked ==
    /\ op = "input"
    /\ op' = "piece_attacked"
    /\ panicked' = piece_attacked_panics(piece, pp)
    /\ hs' = IF piece_attacked_panics(piece, pp) THEN {}
             ELSE {piece_attacked(piece, pp, gd)}
    /\ UNCHANGED <<pp, gd, piece>>
    /\ UNCHANGED <<setup_done, active, rules_update, games, conns, relayed, retval, touched>>

NextAttack == PieceAttacked

SpecAttack == InitAttack /\ [][NextAttack]_vars

\* C22: piece_attacked returns true exactly when some piece of the colour
\* opposite to the target's could capture on the target square under its own
\* movement pattern; a piece found along a pattern that is not its own does
\* not count; the answer is the same for every castle mask.
C22_AttackDetectorAgrees ==
    op = "piece_attacked" =>
        /\ ~panicked
        /\ hs = {AttackedBy(pp, <<piece.row, piece.col>>, ~is_white(piece))}
        /\ \A mask \in {0, ALL_CASTLES_LOST} :
              piece_attacked(piece, pp, [gd EXCEPT !.mask = mask]) \in hs

\* A bishop of the other colour stands next to the target on the target's
\* file, where the rook and king patterns find it, and the answer is false.
C22_Witness ==
    /\ op = "piece_attacked"
    /\ hs = {FALSE}
    /\ \E a \in Squares :
          /\ a[2] = piece.col /\ Abs(a[1] - piece.row) = 1
          /\ pp[a[1]][a[2]] = (IF is_white(piece) THEN BB ELSE WB)

(***************************************************************************)
(* Claims about the scratch board of the legality filter (SpecOrder).      *)
(***************************************************************************)
\* The squares on which two boards differ.
Differ(b1, b2) == {q \in Idx \X Idx : b1[q[1]][q[2]] # b2[q[1]][q[2]]}

\* The squares move m of piece p names.
Named(p, m) ==
    {<<p.row, p.col>>, <<m.dst.row, m.dst.col>>}
    \cup (IF m.typ.kind = "Capture" THEN {<<m.typ.row, m.typ.col>>} ELSE {})
    \cup (IF m.typ.kind = "Secondary"
          THEN {<<m.typ.src.row, m.typ.src.col>>, <<m.typ.dst.row, m.typ.dst.col>>}
          ELSE {})

\* C23: a call of allowed_moves leaves the caller's board and game data as
\* they were; and for any candidates tried one after the other the scratch
\* board is the original board again after the last, be they Normal, Capture
\* or Secondary moves, so that each candidate is kept exactly when it passes
\* on the original board with that one move made, a board that differs from
\* the original on the squares of that move only.
C23_ScratchBoardRestored ==
    [][ op' = "allowed_moves" =>
          /\ pp' = pp
          /\ gd' = gd
          /\ LET p == piece'
                 candidates == generated_moves(p, pp, gd)
             IN  /\ \A ms \in ArrangementsUpTo(candidates, MaxTried) :
                        LET res == constrain_in_order(ms, pp, p, pp, gd)
                        IN  /\ res.post_pp = pp
                            /\ res.kept = {m \in Range(ms) : constraint_allows(p, m, pp, gd)}
                 /\ \A m \in candidates :
                        Differ(make_move(p, m, pp), pp) \subseteq Named(p, m)
      ]_vars

\* allowed_moves has filtered a castling move, a capture and a plain step of
\* a king, of which the constraint rule rejected at least one.
C23_Witness ==
    /\ op = "allowed_moves"
    /\ LET candidates == generated_moves(piece, pp, gd)
       IN  /\ \E m \in candidates : m.typ.kind = "Secondary"
           /\ \E m \in candidates : m.typ.kind = "Capture"
           /\ \E m \in candidates : m.typ.kind = "Normal"
           /\ \E m \in candidates : ~constraint_allows(piece, m, pp, gd)

(***************************************************************************)
(* SpecApply: make_move applied to a king on e1 and a move of any kind     *)
(* whose squares are drawn from a pool around it, the other squares of the *)
(* pool being empty or occupied.  Moves no generator makes are among them: *)
(* a capture beside the destination, a secondary piece standing on the     *)
(* mover's destination, squares that coincide.                             *)
(***************************************************************************)
ApplySource == <<1, 5>>
ApplyPool == {<<1, 5>>, <<1, 6>>, <<1, 7>>, <<1, 8>>, <<2, 6>>}
ApplyOccupants == {0, WR, BP}

\* The moves built over the pool for a mover of tag n.
ApplyMoves(n) ==
    {Move_normal(d[1], d[2], n, GameData(1, 0)) : d \in ApplyPool}
    \cup {[dst |-> Piece(d[1], d[2], n),
           typ |-> [kind |-> "Capture", row |-> x[1], col |-> x[2]],
           game_data |-> GameData(1, 0)] : d \in ApplyPool, x \in ApplyPool}
    \cup {[dst |-> Piece(d[1], d[2], n),
           typ |-> [kind |-> "Secondary",
                    src |-> Piece(x[1], x[2], WR),
                    dst |-> Piece(y[1], y[2], WR)],
           game_data |-> GameData(1, 0)] : d \in ApplyPool, x \in ApplyPool, y \in ApplyPool}

InitApply ==
    /\ piece = Piece(ApplySource[1], ApplySource[2], WK)
    /\ \E occ \in [ApplyPool \ {ApplySource} -> ApplyOccupants] :
          pp = [r \in Idx |-> [c \in Idx |->
                  IF <<r, c>> = ApplySource THEN WK
                  ELSE IF <<r, c>> \in ApplyPool THEN occ[<<r, c>>]
                  ELSE 0]]
    /\ \E m \in ApplyMoves(WK) : hs = {m}
    /\ gd = GameData(1, 0)
    /\ op = "input"
    /\ panicked = FALSE
    /\ SessionAtRest
    /\ RelayAtRest
    /\ PluginAtRest
    /\ NothingTouched

\* One call of make_move with the piece, the move held in hs and the board.
MakeMove ==
    /\ op = "input"
    /\ \E m \in hs : pp' = make_move(piece, m, pp)
    /\ op' = "make_move"
    /\ UNCHANGED <<gd, piece, hs, panicked>>
    /\ UNCHANGED <<setup_done, active, rules_update, games, conns, relayed, retval, touched>>

NextApply == MakeMove

SpecApply == InitApply /\ [][NextApply]_vars

\* What a square holds after the writes the move names, a later write
\* winning where squares coincide: the secondary piece's destination, its
\* emptied source, the emptied captured square, the mover's destination, the
\* emptied source of the mover; any other square as before.
AfterMove(q, p, m, board) ==
    LET dst == <<m.dst.row, m.dst.col>>
    IN  IF m.typ.kind = "Secondary" /\ q = <<m.typ.dst.row, m.typ.dst.col>>
        THEN m.typ.dst.name
        ELSE IF m.typ.kind = "Secondary" /\ q = <<m.typ.src.row, m.typ.src.col>> /\ q # dst
        THEN 0
        ELSE IF m.typ.kind = "Capture" /\ q = <<m.typ.row, m.typ.col>> /\ q # dst
        THEN 0
        ELSE IF q = dst THEN p.name
        ELSE IF q = <<p.row, p.col>> THEN 0
        ELSE board[q[1]][q[2]]

\* C24: make_move empties the mover's source square and writes the mover's
\* tag on the destination; for a Capture it then empties the captured square
\* when that is not the destination; for a Secondary it then empties the
\* secondary piece's source square when that is not the mover's destination
\* and writes the secondary piece's tag on its destination; every other
\* square is as before; and it does so for every move, legal or not.
C24_MakeMoveWrites ==
    [][ op' = "make_move" =>
          \A m \in hs : \A q \in Idx \X Idx :
              pp'[q[1]][q[2]] = AfterMove(q, piece, m, pp) ]_vars

\* A capture beside the destination has been applied: the mover stands on
\* the destination, and its source square and the captured square are empty.
C24_Witness ==
    /\ op = "make_move"
    /\ \E m \in hs :
          /\ m.typ.kind = "Capture"
          /\ <<m.typ.row, m.typ.col>> # <<m.dst.row, m.dst.col>>
          /\ <<m.dst.row, m.dst.col>> # <<piece.row, piece.col>>
          /\ <<m.typ.row, m.typ.col>> # <<piece.row, piece.col>>
          /\ pp[m.dst.row][m.dst.col] = piece.name
          /\ pp[m.typ.row][m.typ.col] = 0
          /\ pp[piece.row][piece.col] = 0

(***************************************************************************)
(* Claims about the order of play (SpecGame).                              *)
(***************************************************************************)
\* C25: a move is applied only if the turn rule accepts the moved piece for
\* some player; the piece is then white at an odd ply and black at an even
\* ply; the first applied move is white's, at ply 1, and every later applied
\* move is of the colour other than that of the applied move before it.
C25_ColoursAlternate ==
    [][ op' = "applied" =>
          /\ \E player \in {0, 1} : turn_rule(player, piece', gd)
          /\ is_white(piece') = (gd.ply % 2 = 1)
          /\ IF piece = NoPiece
             THEN is_white(piece') /\ gd.ply = 1
             ELSE is_white(piece') # is_white(piece) ]_vars

\* Black has just moved for the second time.
C25_Witness ==
    /\ op = "applied"
    /\ ~is_white(piece)
    /\ gd.ply = 5

(***************************************************************************)
(* SpecPlugin: the js-plugin movement rule.  The external movement plugin  *)
(* fills the return buffer with any bytes; plugin_movement_rule decodes    *)
(* them.  The board holds the queried queen on d4 and a rook of its colour *)
(* on a1.                                                                  *)
(***************************************************************************)
\* The length of the return buffer (3 * 8 * 8 * 95 in the code).
RETVAL_LEN == 3 * MaxTriples

\* The bytes the plugin writes: rows 0, 1, 9; columns 1, 2, 9; the kind 'N'.
PluginRowBytes == {0, 1, 9}
PluginColBytes == {1, 2, 9}
PluginKindBytes == {WN}

\* The buffers the plugin may return: MaxTriples triples, byte after byte.
PluginBuffers ==
    {[i \in 1..RETVAL_LEN |-> ts[(i + 2) \div 3][((i - 1) % 3) + 1]] :
        ts \in [1..MaxTriples -> PluginRowBytes \X PluginColBytes \X PluginKindBytes]}

\* Mutant of plugin_decode: a triple outside the board ends the decoding.
RECURSIVE plugin_decode_stops_outside(_, _, _, _)
plugin_decode_stops_outside(buf, i, board, game_data) ==
    IF i >= RETVAL_LEN THEN {}
    ELSE IF buf[i + 1] = 0 THEN {}
    ELSE LET r == buf[i + 1]
             c == buf[i + 2]
             n == buf[i + 3]
         IN  IF std_in_bounds(r, c)
             THEN (IF board[r][c] # 0
                   THEN {Move_capture(r, c, n, game_data)}
                   ELSE {Move_normal(r, c, n, game_data)})
                  \cup plugin_decode_stops_outside(buf, i + 3, board, game_data)
             ELSE {}

\* The decoding loop of plugin_movement_rule from offset i on (the buffer is
\* indexed from 0 in the code, from 1 here).
RECURSIVE plugin_decode(_, _, _, _)
plugin_decode(buf, i, board, game_data) ==
    IF i >= RETVAL_LEN THEN {}
    ELSE IF buf[i + 1] = 0 THEN {}
    ELSE LET r == buf[i + 1]
             c == buf[i + 2]
             n == buf[i + 3]
         IN  (IF std_in_bounds(r, c)
              THEN IF board[r][c] # 0
                   THEN {Move_capture(r, c, n, game_data)}
                   ELSE {Move_normal(r, c, n, game_data)}
              ELSE {})
             \cup plugin_decode(buf, i + 3, board, game_data)

InitPlugin ==
    /\ piece = Piece(4, 4, WQ)
    /\ pp = place(place(EmptyBoard, Piece(4, 4, WQ)), Piece(1, 1, WR))
    /\ \E m \in MaskMenu : gd = GameData(1, m)
    /\ hs = {}
    /\ op = "input"
    /\ panicked = FALSE
    /\ SessionAtRest
    /\ RelayAtRest
    /\ PluginAtRest
    /\ NothingTouched

\* plugin_movement_rule: the plugin is called, its buffer is decoded.
PluginMovementRule ==
    /\ op = "input"
    /\ \E buf \in PluginBuffers :
          /\ retval' = buf
          /\ hs' = plugin_decode(buf, 0, pp, gd)
    /\ op' = "js-plugin"
    /\ UNCHANGED <<pp, gd, piece, panicked>>
    /\ UNCHANGED <<setup_done, active, rules_update, games, conns, relayed, touched>>

NextPlugin == PluginMovementRule

SpecPlugin == InitPlugin /\ [][NextPlugin]_vars

\* The j-th triple of a buffer.
Triple(buf, j) == <<buf[3 * j - 2], buf[3 * j - 1], buf[3 * j]>>

\* The triples that are read: those before the first whose first byte is 0.
TriplesRead(buf) ==
    {j \in 1..(Len(buf) \div 3) : \A k \in 1..j : Triple(buf, k)[1] # 0}

\* C26: the moves of the plugin rule are exactly one move for each triple
\* that stands before the first triple whose first byte is 0 and names a
\* square of rows and columns 1..8: a Capture of that square when it is
\* occupied, a Normal move to it when it is empty; a triple outside the board
\* gives no move and the triples after it are still decoded; the terminating
\* triple and what follows it give nothing.
C26_PluginDecoding ==
    op = "js-plugin" =>
        hs = {LET t == Triple(retval, j)
              IN  IF pp[t[1]][t[2]] # 0
                  THEN Move_capture(t[1], t[2], t[3], gd)
                  ELSE Move_normal(t[1], t[2], t[3], gd)
              : j \in {k \in TriplesRead(retval) :
                          Triple(retval, k)[1] \in 1..8 /\ Triple(retval, k)[2] \in 1..8}}

\* The buffer held a triple outside the board, a triple of the occupied
\* square a1, a terminating triple and then a triple of the empty square b1:
\* the capture of a1 is the one move.
C26_Witness ==
    /\ op = "js-plugin"
    /\ Triple(retval, 1) = <<9, 1, WN>>
    /\ Triple(retval, 2) = <<1, 1, WN>>
    /\ Triple(retval, 3)[1] = 0
    /\ Triple(retval, 4) = <<1, 2, WN>>
    /\ hs = {Move_capture(1, 1, WN, gd)}

(***************************************************************************)
(* SpecKings: a session from Game::new on, as SpecGame, with moves         *)
(* attempted between the squares of a bishop's way to the black king: e2,  *)
(* e3, f1, b5, the d-pawn's d7 and d6, the e-pawn's e7 and e6, and e8.     *)
(***************************************************************************)
KingsSquares ==
    {<<2, 5>>, <<3, 5>>, <<1, 6>>, <<5, 2>>, <<7, 4>>, <<6, 4>>, <<7, 5>>, <<6, 5>>,
     <<8, 5>>}

NextKings ==
    \/ \E rule \in SetupRuleNames : SetupStep(rule)
    \/ \E player \in {0, 1}, src \in KingsSquares, dst \in KingsSquares :
          TryMove(player, src, dst)

SpecKings == InitGame /\ [][NextKings]_vars

\* C27: once the position is set up, both kings are on the board after any
\* sequence of applied moves.
C27_KingsStayOnBoard ==
    setup_done = SetupRuleNames =>
        \A k \in {WK, BK} : \E q \in Squares : pp[q[1]][q[2]] = k

(***************************************************************************)
(* Claims about the squares of the returned moves (SpecQuery).             *)
(***************************************************************************)
\* C28: every move allowed_moves returns for a piece standing on the board
\* on rows 1..8 and columns 1..8 has its destination, its captured square
\* and its secondary source and destination within rows 1..8 and columns
\* 1..8, a pawn on its last rank included.
C28_MovesStayOnBoard ==
    (/\ op = "allowed_moves"
     /\ std_in_bounds(piece.row, piece.col)
     /\ pp[piece.row][piece.col] = piece.name) =>
        \A m \in hs :
            /\ std_in_bounds(m.dst.row, m.dst.col)
            /\ m.typ.kind = "Capture" => std_in_bounds(m.typ.row, m.typ.col)
            /\ m.typ.kind = "Secondary" =>
                  /\ std_in_bounds(m.typ.src.row, m.typ.src.col)
                  /\ std_in_bounds(m.typ.dst.row, m.typ.dst.col)

(***************************************************************************)
(* SpecRooks: a session from Game::new on, as SpecGame, with the moves     *)
(* attempted taken from a list: a black knight goes g8-f6-g4-f2-h1, the    *)
(* white rook of a1 goes a3-h3-h1 behind the a- and h-pawns, the white     *)
(* knight and bishop leave g1 and f1, black pushes its a- and b-pawns, and *)
(* white tries to castle king-side.                                        *)
(***************************************************************************)
ScriptMoves ==
    {<<<<2, 1>>, <<4, 1>>>>, <<<<1, 1>>, <<3, 1>>>>, <<<<2, 8>>, <<4, 8>>>>,
     <<<<3, 1>>, <<3, 8>>>>, <<<<3, 8>>, <<1, 8>>>>, <<<<1, 7>>, <<3, 6>>>>,
     <<<<2, 5>>, <<3, 5>>>>, <<<<1, 6>>, <<2, 5>>>>, <<<<1, 5>>, <<1, 7>>>>,
     <<<<8, 7>>, <<6, 6>>>>, <<<<6, 6>>, <<4, 7>>>>, <<<<4, 7>>, <<2, 6>>>>,
     <<<<2, 6>>, <<1, 8>>>>, <<<<7, 1>>, <<6, 1>>>>, <<<<6, 1>>, <<5, 1>>>>,
     <<<<7, 2>>, <<6, 2>>>>, <<<<6, 2>>, <<5, 2>>>>}

ScriptedMove(player, mv) == TryMoveUpTo(MaxScriptPly, player, mv[1], mv[2])

NextRooks ==
    \/ \E rule \in SetupRuleNames : SetupStep(rule)
    \/ \E player \in {0, 1}, mv \in ScriptMoves : ScriptedMove(player, mv)

SpecRooks == InitGame /\ [][NextRooks]_vars

\* C29: once the position is set up, a castling move is among the moves
\* allowed_moves returns for the king of the side to move only if no applied
\* move has left or landed on the king's home square or on the corner of the
\* rook that would take part: the king and that rook are the ones set up
\* there and have never moved.
C29_CastlingNeedsOriginalRook ==
    setup_done = SetupRuleNames =>
        \A white \in BOOLEAN : \A rook_col \in {1, 8} :
            LET row == IF white THEN 1 ELSE 8
                king == Piece(row, 5, IF white THEN WK ELSE BK)
            IN  (/\ pp[row][5] = king.name
                 /\ is_turn(IF white THEN 0 ELSE 1, king, gd)
                 /\ Castles(allowed_moves(king, pp, gd), rook_col) # {}) =>
                    /\ <<row, 5>> \notin touched
                    /\ <<row, rook_col>> \notin touched

(***************************************************************************)
(* Claims about the life of a game in the relay (SpecRelay).               *)
(***************************************************************************)
\* The connections whose position a step changes.
Stepped == {q \in DOMAIN conns : conns'[q].pc # conns[q].pc}

\* The connections whose channel gains the game-id message in a step.
SentGameId ==
    {q \in DOMAIN conns :
        /\ Len(conns'[q].rx) = Len(conns[q].rx) + 1
        /\ conns'[q].rx[Len(conns'[q].rx)].kind = "game_info"}

====
